---- MODULE Spec2Model ----
(***************************************************************************)
(* Model of the Gmail filter engine: the classifier                        *)
(* (EmailAnalyzer.categorizeEmail), the protection matchers and the rate   *)
(* limiter of utils.js, the batch mutator and rule synthesizer of          *)
(* EmailFilter, and the run sequencing of index.js / continuous.js.        *)
(* Strings are TLA+ strings; the JavaScript string functions the program   *)
(* uses are operators that compute what the functions compute.             *)
(***************************************************************************)
EXTENDS Integers, Sequences, FiniteSets, TLC

VARIABLES
  pc,                \* position of the operation under study
  vipEmails,         \* EmailAnalyzer.vipEmails (normalised by the constructor)
  protectedSenders,  \* EmailAnalyzer.protectedSenders
  protectedKeywords, \* EmailAnalyzer.protectedKeywords
  msg,               \* metadata of the message handed to analyzeEmail
  analysis,          \* the analysis record analyzeEmail returns
  matchIn,           \* arguments of a protection matcher call
  matchOut,          \* results of the protection matchers on matchIn
  now,               \* Date.now(), in ms
  lastRequest,       \* RateLimiter.lastRequest
  waiters,           \* per caller of RateLimiter.wait(): where it is, its timer
  releases,          \* the times at which wait() let a caller proceed
  entry,             \* the program that runs: "index" or "continuous"
  scenario,          \* which mailbox the account holds
  msgLabels,         \* provider: the label ids of each message
  filters,           \* provider: the persistent rules, in creation order
  today,             \* the calendar day
  checkpoint,        \* the content of .checkpoint.json
  run,               \* number of the current run of the program
  messages,          \* the message ids the run fetched
  batchStart,        \* i of the loop of analyzeAllEmails
  emailStats,        \* EmailAnalyzer.emailStats
  createdLabels,     \* names of the labels setupFilteringLabels returned
  filterSenders,     \* EmailFilter.protectedSenders
  existingFilters,   \* EmailFilter.existingFilters, the cached rule list
  archived,          \* ids from which the run removed INBOX
  createdRules,      \* the rules the run created
  synthRuns,         \* per completed createFilters: the aggregates it read
  failing,           \* the provider calls that fail in this behaviour
  steps,             \* the steps of the run attempted so far, in order
  checkpointAtStart, \* the content of .checkpoint.json when the run started
  maxRetries,        \* withRetry: its maxRetries argument
  attempt,           \* withRetry: attempt of its loop
  fnScript,          \* withRetry: what the successive calls of fn will do
  fnCalls,           \* withRetry: the outcomes of the calls of fn, in order
  sleeps,            \* withRetry: the delays it slept, in order
  lastError,         \* withRetry: lastError
  retryResult,       \* withRetry: what it returned or threw
  groupSizes,        \* applyFiltersToExisting: emails.length of each entry of actions
  labelNames,        \* applyFiltersToExisting: the keys of its labels argument
  position,          \* applyFiltersToExisting: the next batchModify call
  batchCalls,        \* the batchModify calls made, in order, with their outcome
  inbox,             \* resuming: the arrival day of each message, oldest first
  classified,        \* resuming: the ids some run has fetched and analysed
  firstStored,       \* resuming: the first lastProcessedDate stored (0: none yet)
  file,              \* checkpoint.js: the state of .checkpoint.json
  loaded,            \* checkpoint.js: the outcome of the last loadCheckpoint()
  updateCall,        \* checkpoint.js: the last updateCheckpoint(): argument, outcome
  lastOps,           \* checkpoint.js: the last two operations on the file
  createdCount,      \* what createFilters of the run returned
  summary,           \* what displayFilteringSummary of the run printed
  providerLabels,    \* provider: the labels of the account, in creation order
  labelCalls,        \* the label-ensuring calls made, in order, with their outcome
  inboxSize,         \* batch processor: number of messages of the account's inbox
  inboxKind,         \* batch processor: which of them the classifier would archive
  inboxArchived,     \* batch processor: the ids that have lost INBOX
  batchNumber,       \* batch processor: batchNumber of main
  batchToken,        \* batch processor: pageToken of main
  batchPage,         \* batch processor: what the current processBatch fetched
  batchFetches,      \* batch processor: the messages.list calls made, in order
  cleanupArgs,       \* cleanup tool: process.argv.slice(2)
  providerRules,     \* cleanup tool: the rules of the account
  rulesAtStart,      \* cleanup tool: the rules of the account when it started
  issues,            \* cleanup tool: what analyzeFilters returned
  deleteCalls,       \* cleanup tool: the ids of the filters.delete calls, in order
  fixReturn,         \* cleanup tool: what fixIssues returned
  spamSize,          \* spam analyzer: messages labelled Likely Spam at the start
  spamRescued,       \* spam analyzer: the ids moved back to the inbox
  spamFile,          \* spam analyzer: the content of .spam-checkpoint.json
  spamSession,       \* spam analyzer: the local variables of main
  spamBatch,         \* spam analyzer: the batch the session is working on
  spamDecided,       \* spam analyzer: the ids of the batches the user decided on
  spamSessions       \* spam analyzer: number of sessions started

configVars == <<vipEmails, protectedSenders, protectedKeywords>>
classifyVars == <<msg, analysis>>
matchVars == <<matchIn, matchOut>>
rateVars == <<now, lastRequest, waiters, releases>>

providerVars == <<scenario, msgLabels, filters, today, checkpoint>>
analyzerVars == <<messages, batchStart, emailStats>>
filterVars == <<createdLabels, filterSenders, existingFilters>>
historyVars ==
  <<archived, createdRules, synthRuns, failing, steps, checkpointAtStart,
    createdCount, summary>>
runVars == <<entry, run, providerVars, analyzerVars, filterVars, historyVars>>

retryVars == <<maxRetries, attempt, fnScript, fnCalls, sleeps, lastError, retryResult>>
applyVars == <<groupSizes, labelNames, position, batchCalls>>
resumeVars == <<inbox, classified, firstStored>>
storeVars == <<file, loaded, updateCall, lastOps>>
labelVars == <<providerLabels, labelCalls>>
inboxVars ==
  <<inboxSize, inboxKind, inboxArchived, batchNumber, batchToken, batchPage,
    batchFetches>>
cleanupVars ==
  <<cleanupArgs, providerRules, rulesAtStart, issues, deleteCalls, fixReturn>>
spamVars ==
  <<spamSize, spamRescued, spamFile, spamSession, spamBatch, spamDecided,
    spamSessions>>
toolVars == <<inboxVars, cleanupVars, spamVars>>
unitVars == <<retryVars, applyVars, resumeVars, storeVars, labelVars, toolVars>>

vars == <<pc, configVars, classifyVars, matchVars, rateVars, runVars, unitVars>>

(***************************************************************************)
(* JavaScript string and array functions                                   *)
(***************************************************************************)
\* the upper-case letters and their lower-case forms
LowerCaseOf ==
  [c \in {"A", "B", "C", "D", "E", "F", "G", "H", "I", "J", "K", "L", "M", "N",
          "O", "P", "Q", "R", "S", "T", "U", "V", "W", "X", "Y", "Z"} |->
     CASE c = "A" -> "a" [] c = "B" -> "b" [] c = "C" -> "c" [] c = "D" -> "d"
       [] c = "E" -> "e" [] c = "F" -> "f" [] c = "G" -> "g" [] c = "H" -> "h"
       [] c = "I" -> "i" [] c = "J" -> "j" [] c = "K" -> "k" [] c = "L" -> "l"
       [] c = "M" -> "m" [] c = "N" -> "n" [] c = "O" -> "o" [] c = "P" -> "p"
       [] c = "Q" -> "q" [] c = "R" -> "r" [] c = "S" -> "s" [] c = "T" -> "t"
       [] c = "U" -> "u" [] c = "V" -> "v" [] c = "W" -> "w" [] c = "X" -> "x"
       [] c = "Y" -> "y" [] c = "Z" -> "z"]

LowerChar(c) == IF c \in DOMAIN LowerCaseOf THEN LowerCaseOf[c] ELSE c

RECURSIVE toLowerCase(_)
toLowerCase(s) ==
  IF Len(s) = 0 THEN ""
  ELSE LowerChar(SubSeq(s, 1, 1)) \o toLowerCase(SubSeq(s, 2, Len(s)))

CharAt(s, i) == SubSeq(s, i, i)

RECURSIVE trimStart(_)
trimStart(s) ==
  IF Len(s) > 0 /\ CharAt(s, 1) = " " THEN trimStart(SubSeq(s, 2, Len(s))) ELSE s

RECURSIVE trimEnd(_)
trimEnd(s) ==
  IF Len(s) > 0 /\ CharAt(s, Len(s)) = " "
  THEN trimEnd(SubSeq(s, 1, Len(s) - 1)) ELSE s

trim(s) == trimEnd(trimStart(s))

startsWith(s, prefix) ==
  Len(prefix) <= Len(s) /\ SubSeq(s, 1, Len(prefix)) = prefix

endsWith(s, suffix) ==
  Len(suffix) <= Len(s) /\ SubSeq(s, Len(s) - Len(suffix) + 1, Len(s)) = suffix

\* String.prototype.includes
includes(s, sub) ==
  \E i \in 1..(Len(s) - Len(sub) + 1) : SubSeq(s, i, i + Len(sub) - 1) = sub

\* Array.prototype.includes
arrIncludes(arr, x) == \E i \in DOMAIN arr : arr[i] = x

\* /a.*b/ : a, and later in the string b
matchesThen(s, a, b) ==
  \E i \in 1..(Len(s) - Len(a) + 1) :
     /\ SubSeq(s, i, i + Len(a) - 1) = a
     /\ includes(SubSeq(s, i + Len(a), Len(s)), b)

\* the positions of s that hold character c
PositionsOf(s, c) == {i \in 1..Len(s) : CharAt(s, i) = c}

Min(S) == CHOOSE x \in S : \A y \in S : x <= y

\* the end of the run of characters not in stop that starts at position i
RECURSIVE RunEnd(_, _, _)
RunEnd(s, i, stop) ==
  IF i > Len(s) \/ CharAt(s, i) \in stop THEN i - 1 ELSE RunEnd(s, i + 1, stop)

\* the start of the run of non-blank characters that contains position i
RECURSIVE RunStart(_, _)
RunStart(s, i) ==
  IF i < 1 \/ CharAt(s, i) = " " THEN i + 1 ELSE RunStart(s, i - 1)

(***************************************************************************)
(* utils.js                                                                *)
(***************************************************************************)
\* email.match(/@([^>\s]+)/): the first '@' that is followed by a character
\* other than '>' and blank, and the run of such characters after it
extractDomain(email) ==
  LET ats == {i \in PositionsOf(email, "@") :
                 i < Len(email) /\ CharAt(email, i + 1) \notin {">", " "}}
  IN  IF ats = {} THEN ""
      ELSE LET i == Min(ats)
           IN  toLowerCase(SubSeq(email, i + 1, RunEnd(email, i + 1, {">", " "})))

\* fromField.match(/<(.+?)>/) || fromField.match(/([^\s]+@[^\s]+)/)
extractEmail(fromField) ==
  LET lts == PositionsOf(fromField, "<")
      lt  == Min(lts)
      gts == IF lts = {} THEN {}
             ELSE {j \in PositionsOf(fromField, ">") : j >= lt + 2}
      \* an '@' with a non-blank character on each side, inside one token
      ats == {i \in PositionsOf(fromField, "@") :
                 /\ i > 1 /\ i < Len(fromField)
                 /\ CharAt(fromField, i - 1) # " "
                 /\ CharAt(fromField, i + 1) # " "}
      tokenStarts == {RunStart(fromField, i) : i \in ats}
  IN  IF gts # {} THEN toLowerCase(SubSeq(fromField, lt + 1, Min(gts) - 1))
      ELSE IF ats # {}
           THEN LET k == Min(tokenStarts)
                IN  toLowerCase(SubSeq(fromField, k, RunEnd(fromField, k, {" "})))
           ELSE toLowerCase(fromField)

PROTECTED_DOMAINS ==
  << "chase.com", "capitalone.com", "paypal.com", "venmo.com", "mercury.com",
     "rippling.com", "uber.com", "lyft.com", "doordash.com", "google.com",
     "github.com", "apple.com", "citi.com", "amex.com", "americanexpress.com",
     "wellsfargo.com", "bankofamerica.com", "sutterhealth.org", "united.com",
     "delta.com", "southwest.com", "aa.com" >>

isFromProtectedDomain(email) ==
  LET domain == extractDomain(email)
  IN  \E k \in DOMAIN PROTECTED_DOMAINS :
         LET pd == PROTECTED_DOMAINS[k]
         IN  domain = pd \/ endsWith(domain, "." \o pd)

\* a callback that applies the suffix rule to the domain of a full address too
senderMatches_SuffixForAddress(emailLower, domain, sender) ==
  LET senderLower == trim(toLowerCase(sender))
  IN  IF emailLower = senderLower THEN TRUE
      ELSE IF ~includes(senderLower, "@") /\ endsWith(domain, senderLower) THEN TRUE
      ELSE IF startsWith(senderLower, "@")
           THEN LET senderDomain == SubSeq(senderLower, 2, Len(senderLower))
                IN  domain = senderDomain \/ endsWith(domain, "." \o senderDomain)
      ELSE LET senderDomain == extractDomain(senderLower)
           IN  /\ senderDomain # ""
               /\ domain = senderDomain \/ endsWith(domain, "." \o senderDomain)

\* the callback of protectedSenders.some(...) in isProtectedSender
senderMatches(emailLower, domain, sender) ==
  LET senderLower == trim(toLowerCase(sender))
  IN  IF emailLower = senderLower THEN TRUE
      ELSE IF ~includes(senderLower, "@") /\ endsWith(domain, senderLower) THEN TRUE
      ELSE IF startsWith(senderLower, "@")
           THEN LET senderDomain == SubSeq(senderLower, 2, Len(senderLower))
                IN  domain = senderDomain \/ endsWith(domain, "." \o senderDomain)
      ELSE LET senderDomain == extractDomain(senderLower)
           IN  senderDomain # "" /\ domain = senderDomain

isProtectedSender(email, senders) ==
  LET emailLower == toLowerCase(email)
      domain     == extractDomain(emailLower)
  IN  \E k \in DOMAIN senders : senderMatches(emailLower, domain, senders[k])

(***************************************************************************)
(* EmailAnalyzer                                                           *)
(***************************************************************************)
\* list.map(s => s.toLowerCase().trim()) of the constructors
Normalise(list) == [k \in DOMAIN list |-> trim(toLowerCase(list[k]))]

automatedPatterns ==
  <<"noreply", "no-reply", "donotreply", "automated", "notification", "alert",
    "system">>

newsletterSubjectPatterns ==
  <<"newsletter", "weekly digest", "daily digest", "update from", "news from">>

receiptPatterns == <<"receipt", "payment", "invoice", "charged", "your purchase">>

confirmationPatterns ==
  <<"confirmation", "confirmed", "appointment", "reservation", "scheduled",
    "registration">>

\* patterns.some(p => p.test(s)) for the case-insensitive literal patterns
anyPattern(patterns, s) ==
  LET lower == toLowerCase(s)
  IN  \E k \in DOMAIN patterns : includes(lower, patterns[k])

\* an order that tests the provider tags before the list headers and the
\* receipt patterns before the automated senders
heuristicCategory_TagsFirst(headers, labels, fromEmail, subject) ==
  LET subjectLower == toLowerCase(subject)
  IN  IF "CATEGORY_PROMOTIONS" \in labels THEN "promotional"
      ELSE IF "CATEGORY_SOCIAL" \in labels THEN "social"
      ELSE IF "CATEGORY_FORUMS" \in labels THEN "forums"
      ELSE IF headers.listUnsubscribe # "" \/ headers.listId # "" THEN "newsletter"
      ELSE IF \/ anyPattern(receiptPatterns, subject)
              \/ matchesThen(subjectLower, "order", "shipped")
              \/ matchesThen(subjectLower, "order", "delivered")
              \/ includes(fromEmail, "paypal.com")
              \/ includes(fromEmail, "invoice")
              \/ includes(fromEmail, "amazon.com")
           THEN "receipt"
      ELSE IF anyPattern(automatedPatterns, fromEmail) THEN "automated"
      ELSE IF anyPattern(newsletterSubjectPatterns, subject) THEN "newsletter"
      ELSE IF anyPattern(confirmationPatterns, subject) THEN "confirmation"
      ELSE "unknown"

\* categorizeEmail from the list-header check down (no VIP/protection match)
heuristicCategory(headers, labels, fromEmail, subject) ==
  LET subjectLower == toLowerCase(subject)
  IN  IF headers.listUnsubscribe # "" \/ headers.listId # "" THEN "newsletter"
      ELSE IF "CATEGORY_PROMOTIONS" \in labels THEN "promotional"
      ELSE IF "CATEGORY_SOCIAL" \in labels THEN "social"
      ELSE IF "CATEGORY_FORUMS" \in labels THEN "forums"
      ELSE IF anyPattern(automatedPatterns, fromEmail) THEN "automated"
      ELSE IF anyPattern(newsletterSubjectPatterns, subject) THEN "newsletter"
      ELSE IF \/ anyPattern(receiptPatterns, subject)
              \/ matchesThen(subjectLower, "order", "shipped")
              \/ matchesThen(subjectLower, "order", "delivered")
              \/ includes(fromEmail, "paypal.com")
              \/ includes(fromEmail, "invoice")
              \/ includes(fromEmail, "amazon.com")
           THEN "receipt"
      ELSE IF anyPattern(confirmationPatterns, subject) THEN "confirmation"
      ELSE "unknown"

\* subject.toLowerCase() contains one of the protected keywords
hasProtectedKeyword(keywords, subject) ==
  LET subjectLower == toLowerCase(subject)
  IN  \E k \in DOMAIN keywords : includes(subjectLower, keywords[k])

\* a slip that tests the list headers before the protection rules
categorizeEmail_HeadersFirst(vips, senders, keywords, headers, labels, fromEmail, subject) ==
  IF arrIncludes(vips, fromEmail) THEN "vip"
  ELSE IF headers.listUnsubscribe # "" \/ headers.listId # "" THEN "newsletter"
  ELSE IF arrIncludes(senders, fromEmail) THEN "protected"
  ELSE IF hasProtectedKeyword(keywords, subject) THEN "protected"
  ELSE heuristicCategory(headers, labels, fromEmail, subject)

\* a slip that tests the protection rules before the VIP list
categorizeEmail_ProtectedFirst(vips, senders, keywords, headers, labels, fromEmail, subject) ==
  IF arrIncludes(senders, fromEmail) THEN "protected"
  ELSE IF hasProtectedKeyword(keywords, subject) THEN "protected"
  ELSE IF arrIncludes(vips, fromEmail) THEN "vip"
  ELSE heuristicCategory(headers, labels, fromEmail, subject)

categorizeEmail(vips, senders, keywords, headers, labels, fromEmail, subject) ==
  IF arrIncludes(vips, fromEmail) THEN "vip"
  ELSE IF arrIncludes(senders, fromEmail) THEN "protected"
  ELSE IF hasProtectedKeyword(keywords, subject) THEN "protected"
  ELSE heuristicCategory(headers, labels, fromEmail, subject)

\* the part of analyzeEmail after the metadata has arrived
analyze(vips, senders, keywords, id, m) ==
  LET fromEmail == extractEmail(m.from)
  IN  [id |-> id, from |-> m.from, fromEmail |-> fromEmail,
       subject |-> m.subject, labels |-> m.labelIds,
       category |-> categorizeEmail(vips, senders, keywords,
                       [listUnsubscribe |-> m.listUnsubscribe, listId |-> m.listId],
                       m.labelIds, fromEmail, m.subject)]

(***************************************************************************)
(* Inputs                                                                  *)
(***************************************************************************)
FromHeaders ==
  { "service@paypal.com", "Chase <alerts@billing.chase.com>", "boss@corp.com",
    "The Boss <Boss@Corp.com>", "news@x.com", "noreply@shop.com",
    "x@chase.com.evil.net", "bob@notchase.com", "friend@mail.org",
    "user@paypal.com.evil.net" }

Subjects ==
  { "winner!!! claim your prize", "Weekly Digest", "URGENT invoice due",
    "Your receipt", "Appointment confirmed", "hello", "Order 12 shipped" }

ListUnsubscribes == {"", "<mailto:u@x.com>"}
ListIds == {"", "<list.x.com>"}

LabelSets ==
  { {"INBOX"}, {"INBOX", "CATEGORY_PROMOTIONS"}, {"INBOX", "CATEGORY_SOCIAL"},
    {"INBOX", "CATEGORY_FORUMS"} }

Messages ==
  [from : FromHeaders, subject : Subjects, listUnsubscribe : ListUnsubscribes,
   listId : ListIds, labelIds : LabelSets]

\* VIP_EMAILS, PROTECTED_SENDERS, PROTECTED_KEYWORDS as the user wrote them
VipConfigs == { <<>>, <<" Boss@Corp.com">>, <<"news@x.com", "service@paypal.com">> }
SenderConfigs ==
  { <<>>, <<"news@x.com">>, <<"chase.com">>, <<"noreply@shop.com", "@corp.com">> }
KeywordConfigs == { <<>>, <<"Urgent ">>, <<"digest", "prize">> }

NoAnalysis == [id |-> 0, from |-> "", fromEmail |-> "", subject |-> "",
               labels |-> {}, category |-> "none"]
NoMatch == [sender |-> FALSE, domain |-> FALSE]
NoMessage == [from |-> "", subject |-> "", listUnsubscribe |-> "", listId |-> "",
              labelIds |-> {}]

\* the parts of the state an operation under study does not use
NoConfig == vipEmails = <<>> /\ protectedSenders = <<>> /\ protectedKeywords = <<>>
NoClassify == msg = NoMessage /\ analysis = NoAnalysis
NoMatcher == matchIn = [email |-> "", sender |-> ""] /\ matchOut = NoMatch
NoLimiter == now = 0 /\ lastRequest = 0 /\ waiters = <<>> /\ releases = <<>>
NoError == [code |-> 0, message |-> ""]
NoResult == [kind |-> "pending", value |-> "", error |-> NoError]
NoRetry ==
  /\ maxRetries = 0 /\ attempt = 0 /\ fnScript = <<>> /\ fnCalls = <<>>
  /\ sleeps = <<>>
  /\ lastError = NoError /\ retryResult = NoResult
NoPosition == [action |-> 0, op |-> "", i |-> 0]
NoApply ==
  /\ groupSizes = <<>> /\ labelNames = {} /\ position = NoPosition
  /\ batchCalls = <<>>
NoResume == inbox = <<>> /\ classified = {} /\ firstStored = 0
NoStore == file = <<>> /\ loaded = <<>> /\ updateCall = <<>> /\ lastOps = <<>>
NoLabel == providerLabels = <<>> /\ labelCalls = <<>>
NoInbox ==
  /\ inboxSize = 0 /\ inboxKind = "" /\ inboxArchived = {} /\ batchNumber = 0
  /\ batchToken = 0 /\ batchPage = <<>> /\ batchFetches = <<>>
NoCleanup ==
  /\ cleanupArgs = <<>> /\ providerRules = <<>> /\ rulesAtStart = <<>>
  /\ issues = <<>> /\ deleteCalls = <<>> /\ fixReturn = <<>>
NoSpam ==
  /\ spamSize = 0 /\ spamRescued = {} /\ spamFile = <<>> /\ spamSession = <<>>
  /\ spamBatch = <<>> /\ spamDecided = {} /\ spamSessions = 0
NoTools == NoInbox /\ NoCleanup /\ NoSpam
NoUnit == NoRetry /\ NoApply /\ NoResume /\ NoStore /\ NoLabel /\ NoTools
NoFile == today = 0 /\ checkpoint = <<>> /\ messages = <<>>
NoAccount ==
  /\ entry = "none" /\ run = 0 /\ scenario = 0 /\ msgLabels = <<>> /\ filters = <<>>
  /\ batchStart = 0
  /\ emailStats = <<>> /\ createdLabels = {} /\ filterSenders = <<>>
  /\ existingFilters = <<>> /\ archived = {}
  /\ createdRules = <<>> /\ synthRuns = <<>> /\ failing = {}
  /\ steps = <<>> /\ checkpointAtStart = <<>>
  /\ createdCount = 0 /\ summary = <<>>
NoRun == NoAccount /\ NoFile

(***************************************************************************)
(* SpecClassify: analyzeEmail / categorizeEmail on one message             *)
(***************************************************************************)
InitClassify ==
  /\ pc = "fetched"
  /\ vipEmails \in {Normalise(c) : c \in VipConfigs}
  /\ protectedSenders \in {Normalise(c) : c \in SenderConfigs}
  /\ protectedKeywords \in {Normalise(c) : c \in KeywordConfigs}
  /\ msg \in Messages
  /\ analysis = NoAnalysis
  /\ NoMatcher
  /\ NoLimiter
  /\ NoRun
  /\ NoUnit

Categorize ==
  /\ pc = "fetched"
  /\ analysis' = analyze(vipEmails, protectedSenders, protectedKeywords, 1, msg)
  /\ pc' = "analyzed"
  /\ UNCHANGED <<configVars, msg, matchVars, rateVars, runVars, unitVars>>

NextClassify == Categorize

SpecClassify == InitClassify /\ [][NextClassify]_vars

(***************************************************************************)
(* SpecMatch: the protection matchers on one address and one pattern       *)
(***************************************************************************)
MatchEmails ==
  { "alerts@billing.chase.com", "joe@chase.com", "Joe@Chase.COM",
    "x@chase.com.evil.net", "bob@notchase.com", "friend@mail.org",
    "news@x.com", "news@max.com", "a@corp.com", "b@hr.corp.com" }

MatchPatterns ==
  { "chase.com", " Chase.com ", "x.com", "corp.com", "mail.org", "evil.net",
    "@chase.com", "@corp.com", "joe@chase.com", "other@corp.com" }

InitMatch ==
  /\ pc = "called"
  /\ matchIn \in [email : MatchEmails, sender : MatchPatterns]
  /\ matchOut = NoMatch
  /\ NoConfig
  /\ NoClassify
  /\ NoLimiter
  /\ NoRun
  /\ NoUnit

Match ==
  /\ pc = "called"
  /\ matchOut' = [sender |-> isProtectedSender(matchIn.email, <<matchIn.sender>>),
                  domain |-> isFromProtectedDomain(matchIn.email)]
  /\ pc' = "returned"
  /\ UNCHANGED <<configVars, classifyVars, matchIn, rateVars, runVars, unitVars>>

NextMatch == Match

SpecMatch == InitMatch /\ [][NextMatch]_vars

(***************************************************************************)
(* SpecRate: one RateLimiter shared by the concurrent analyzeEmail calls   *)
(* of a batch.  JavaScript runs a caller without interruption up to its    *)
(* next await, so wait() is two steps when it sleeps and one when not.     *)
(***************************************************************************)
requestsPerSecond == 10
minInterval == 1000 \div requestsPerSecond

Callers == 3       \* concurrent callers of wait()
MaxCalls == 4      \* calls of wait() in a behaviour
TickMs == 50       \* granularity of the clock
MaxTicks == 6      \* clock ticks in a behaviour
StartTime == 1000  \* Date.now() when the first call is made

InitRate ==
  /\ pc = "running"
  /\ now = StartTime
  /\ lastRequest = 0
  /\ waiters = [w \in 1..Callers |-> [at |-> "idle", wakeAt |-> 0]]
  /\ releases = <<>>
  /\ NoConfig
  /\ NoClassify
  /\ NoMatcher
  /\ NoRun
  /\ NoUnit

Calls == Len(releases) + Cardinality({w \in 1..Callers : waiters[w].at = "sleeping"})

\* wait() up to its await: reads the clock and lastRequest; when the interval
\* has elapsed it sets lastRequest and returns, otherwise it starts a timer
WaitCall(w) ==
  /\ waiters[w].at = "idle"
  /\ Calls < MaxCalls
  /\ LET elapsed == now - lastRequest
     IN  IF elapsed < minInterval
         THEN /\ waiters' = [waiters EXCEPT ![w] =
                    [at |-> "sleeping", wakeAt |-> now + (minInterval - elapsed)]]
              /\ UNCHANGED <<lastRequest, releases>>
         ELSE /\ lastRequest' = now
              /\ releases' = Append(releases, now)
              /\ UNCHANGED waiters
  /\ UNCHANGED <<pc, now, configVars, classifyVars, matchVars, runVars, unitVars>>

\* wait() after its sleep: the timer has fired; sets lastRequest and returns
WaitWake(w) ==
  /\ waiters[w].at = "sleeping"
  /\ now >= waiters[w].wakeAt
  /\ lastRequest' = now
  /\ releases' = Append(releases, now)
  /\ waiters' = [waiters EXCEPT ![w] = [at |-> "idle", wakeAt |-> 0]]
  /\ UNCHANGED <<pc, now, configVars, classifyVars, matchVars, runVars, unitVars>>

Tick ==
  /\ now < StartTime + MaxTicks * TickMs
  /\ now' = now + TickMs
  /\ UNCHANGED <<pc, lastRequest, waiters, releases, configVars, classifyVars,
                 matchVars, runVars, unitVars>>

NextRate == (\E w \in 1..Callers : WaitCall(w)) \/ (\E w \in 1..Callers : WaitWake(w)) \/ Tick

SpecRate == InitRate /\ [][NextRate]_vars

(***************************************************************************)
(* SpecRetry: withRetry(fn, maxRetries, baseDelay) around one operation.   *)
(* Each call of fn returns a value or throws an error, as the operation    *)
(* decides: fnScript.                                                      *)
(***************************************************************************)
defaultMaxRetries == 3
baseDelay == 1000

\* the maxRetries arguments
RetryCounts == {0, 1, defaultMaxRetries}

\* what a call of fn may throw: Gmail API errors with their code and message
Errors ==
  { [code |-> 401, message |-> "Invalid Credentials"],
    [code |-> 404, message |-> "Requested entity was not found."],
    [code |-> 429, message |-> "Too Many Requests"],
    [code |-> 403, message |-> "User Rate Limit Exceeded"],
    [code |-> 500, message |-> "Backend Error"] }

\* what a call of fn may return
Values == {"a", "b"}

Returned(v) == [kind |-> "returned", value |-> v, error |-> NoError]
Thrown(e) == [kind |-> "thrown", value |-> "", error |-> e]

Outcomes == {Returned(v) : v \in Values} \cup {Thrown(e) : e \in Errors}

RECURSIVE Pow2(_)
Pow2(n) == IF n = 0 THEN 1 ELSE 2 * Pow2(n - 1)

\* error.code === 401 || error.code === 404
isFatal_AuthOnly(error) == error.code = 401
isFatal(error) == error.code = 401 \/ error.code = 404

\* error.code === 429 || error.message?.includes('Rate Limit')
isRateLimit(error) == error.code = 429 \/ includes(error.message, "Rate Limit")

\* a backoff that treats a rate-limit error as any other error
rateLimitDelay_Plain(a) == baseDelay * Pow2(a)

\* baseDelay * Math.pow(2, attempt + 2)
rateLimitDelay(a) == baseDelay * Pow2(a + 2)

\* baseDelay * Math.pow(2, attempt)
retryDelay(a) == baseDelay * Pow2(a)

\* the condition of the loop of withRetry
mayAttempt_Exclusive(a, m) == a < m
mayAttempt_OneMore(a, m) == a <= m + 1
mayAttempt(a, m) == a <= m

\* what call j of fn does; after the script fn goes on as in its last call
outcomeAt(j) == fnScript[IF j < Len(fnScript) THEN j ELSE Len(fnScript)]

InitRetry ==
  /\ pc = "retrying"
  /\ maxRetries \in RetryCounts
  /\ attempt = 0
  /\ fnScript \in [1..(defaultMaxRetries + 1) -> Outcomes]
  /\ fnCalls = <<>>
  /\ sleeps = <<>>
  /\ lastError = NoError
  /\ retryResult = NoResult
  /\ NoApply
  /\ NoResume
  /\ NoLabel
  /\ NoTools
  /\ NoStore
  /\ NoConfig
  /\ NoClassify
  /\ NoMatcher
  /\ NoLimiter
  /\ NoRun

\* one pass of the loop: call fn; return its value, or catch its error and
\* rethrow it, or sleep and go on to the next attempt
RetryAttempt ==
  /\ pc = "retrying"
  /\ mayAttempt(attempt, maxRetries)
  /\ LET o == outcomeAt(Len(fnCalls) + 1)
     IN
        /\ fnCalls' = Append(fnCalls, o)
        /\ IF o.kind = "returned"
           THEN /\ retryResult' = o
                /\ pc' = "settled"
                /\ UNCHANGED <<attempt, sleeps, lastError>>
           ELSE /\ lastError' = o.error
                /\ IF isFatal(o.error)
                   THEN /\ retryResult' = Thrown(o.error)
                        /\ pc' = "settled"
                        /\ UNCHANGED <<attempt, sleeps>>
                   ELSE /\ sleeps' =
                             IF isRateLimit(o.error)
                             THEN Append(sleeps, rateLimitDelay(attempt))
                             ELSE IF attempt < maxRetries
                                  THEN Append(sleeps, retryDelay(attempt))
                                  ELSE sleeps
                        /\ attempt' = attempt + 1
                        /\ UNCHANGED <<pc, retryResult>>
  /\ UNCHANGED <<maxRetries, fnScript, applyVars, resumeVars, storeVars, toolVars, labelVars, configVars, classifyVars,
                 matchVars, rateVars, runVars>>

\* the loop has ended: throw lastError
RetryExhausted ==
  /\ pc = "retrying"
  /\ ~mayAttempt(attempt, maxRetries)
  /\ retryResult' = Thrown(lastError)
  /\ pc' = "settled"
  /\ UNCHANGED <<maxRetries, attempt, fnScript, fnCalls, sleeps, lastError, applyVars,
                 resumeVars, storeVars, toolVars, labelVars, configVars, classifyVars, matchVars, rateVars, runVars>>

NextRetry == RetryAttempt \/ RetryExhausted

SpecRetry == InitRetry /\ [][NextRetry]_vars

(***************************************************************************)
(* Spec: runs of index.js and continuous.js against one account            *)
(***************************************************************************)
MaxMsgs == 12     \* messages in the mailbox
MaxRuns == 2      \* times the program is started
MaxDay == 2       \* calendar days a behaviour spans

batchSize == 10         \* analyzeAllEmails
chunkSize == 50         \* batchSize of applyLabel and archiveMessages
fetchLimit == 500       \* fetchEmails(500), fetchEmailsSince(date, 500)
minCategorySize == 5    \* createFilters: group.length > 5
minFrequency == 3       \* createFilters: getFrequentSenders(group, 3)

Mail(from, subject, listUnsubscribe, labelIds) ==
  [from |-> from, subject |-> subject, listUnsubscribe |-> listUnsubscribe,
   listId |-> "", labelIds |-> labelIds]

\* the mailboxes: message i of mailbox s is Patterns[s][((i - 1) % Len) + 1]
Patterns ==
  << [i \in 1..(batchSize + 1) |->
        IF i <= batchSize
        THEN Mail("Newsletter <newsletter@x.com>", "Weekly Digest",
                  "<mailto:u@x.com>", {"INBOX"})
        ELSE Mail("rare@y.com", "Monthly Digest", "<mailto:u@y.com>", {"INBOX"})],
     << Mail("news@x.com", "hello", "<mailto:u@x.com>", {"INBOX"}),
        Mail("news@x.com", "hello", "", {"INBOX", "CATEGORY_PROMOTIONS"}),
        Mail("Deals <Deals@Shop.com>", "hello", "<mailto:u@shop.com>", {"INBOX"}),
        Mail("Deals <Deals@Shop.com>", "Your receipt", "",
             {"INBOX", "CATEGORY_PROMOTIONS"}) >>,
     << Mail("Chase <alerts@billing.chase.com>", "Your statement",
             "<mailto:u@chase.com>", {"INBOX"}),
        Mail("boss@corp.com", "hello", "", {"INBOX"}),
        Mail("service@paypal.com", "winner!!! claim your prize", "", {"INBOX"}),
        Mail("noreply@shop.com", "Order 12 shipped", "", {"INBOX"}),
        Mail("friend@mail.org", "Appointment confirmed", "", {"INBOX"}),
        Mail("bob@social.net", "URGENT invoice due", "",
             {"INBOX", "CATEGORY_SOCIAL"}) >>,
     << Mail("alerts@billing.chase.com", "Your statement", "", {"INBOX"}),
        Mail("noreply@notchase.com", "hello", "", {"INBOX"}) >> >>

PatternMail(s, id) == Patterns[s][((id - 1) % Len(Patterns[s])) + 1]

\* VIP_EMAILS, PROTECTED_SENDERS and PROTECTED_KEYWORDS of the .env file
Configs ==
  { [vip |-> <<>>, senders |-> <<>>, keywords |-> <<>>],
    [vip |-> <<" Boss@Corp.com">>, senders |-> <<"x.com">>,
     keywords |-> <<"Urgent ">>],
    [vip |-> <<"friend@mail.org">>, senders |-> <<"news@x.com", "@shop.com">>,
     keywords |-> <<"statement">>] }

Rule(from, label) == [from |-> from, addLabel |-> label, removeInbox |-> TRUE]

\* the rules the account has before the first run
ExistingRuleSets ==
  { <<>>,
    << Rule("News@X.com", "Old"), Rule("newsletter@x.com", "Old") >> }

\* a provider call: of run r, operation op, on message or chunk id, on the
\* label or sender name
Call(r, op, id, name) == [run |-> r, op |-> op, id |-> id, name |-> name]

\* the calls of run r that may fail
FaultyCalls(r) ==
  { Call(r, "listMessages", 0, ""),
    Call(r, "getMessage", 1, ""),
    Call(r, "getMessage", MaxMsgs - 1, ""),
    Call(r, "createLabel", 0, "Filtered/Newsletters"),
    Call(r, "addLabel", 1, "Filtered/Newsletters"),
    Call(r, "removeInbox", 1, "Filtered/Promotional"),
    Call(r, "listFilters", 0, ""),
    Call(r, "createFilter", 0, "news@x.com") }

\* the sets of failing calls a behaviour may have: none, one call of one run,
\* or two metadata fetches of the first run
FaultPlans ==
  {{}} \cup {{c} : c \in UNION {FaultyCalls(r) : r \in 1..MaxRuns}}
       \cup {{Call(1, "getMessage", 1, ""), Call(1, "getMessage", 2, "")}}

\* none, one, enough for a rule, one batch, more than one batch
MailboxSizes == {0, 1, minCategorySize + 1, batchSize, MaxMsgs}

InitStats ==
  [total |-> 0, fromVIP |-> <<>>, protected |-> <<>>, newsletters |-> <<>>,
   promotional |-> <<>>, social |-> <<>>, forums |-> <<>>, automated |-> <<>>,
   receipts |-> <<>>, confirmations |-> <<>>, personal |-> <<>>, unknown |-> <<>>]

Groups ==
  {"fromVIP", "protected", "newsletters", "promotional", "social", "forums",
   "automated", "receipts", "confirmations", "personal", "unknown"}

NoCheckpoint == [lastProcessedDate |-> 0, totalProcessed |-> 0, lastRun |-> 0]
NoCache == [fetched |-> FALSE, list |-> <<>>]

LabelNames ==
  {"Filtered/Newsletters", "Filtered/Promotional", "Filtered/Automated",
   "Filtered/Social", "Filtered/Forums", "VIP", "Protected", "Receipts",
   "Confirmations", "Personal"}

Init ==
  /\ pc = "start"
  /\ entry \in {"index", "continuous"}
  /\ run = 1
  /\ \E c \in Configs :
        /\ vipEmails = Normalise(c.vip)
        /\ protectedSenders = Normalise(c.senders)
        /\ protectedKeywords = Normalise(c.keywords)
  /\ scenario \in DOMAIN Patterns
  /\ \E n \in MailboxSizes :
        msgLabels = [id \in 1..n |-> PatternMail(scenario, id).labelIds]
  /\ filters \in ExistingRuleSets
  /\ today = 1
  /\ checkpoint = NoCheckpoint
  /\ messages = <<>>
  /\ batchStart = 0
  /\ emailStats = InitStats
  /\ createdLabels = {}
  /\ filterSenders = <<>>
  /\ existingFilters = NoCache
  /\ archived = {}
  /\ createdRules = <<>>
  /\ synthRuns = <<>>
  /\ failing \in FaultPlans
  /\ steps = <<>>
  /\ checkpointAtStart = NoCheckpoint
  /\ createdCount = 0
  /\ summary = <<>>
  /\ NoClassify
  /\ NoMatcher
  /\ NoLimiter
  /\ NoUnit

idleVars == <<classifyVars, matchVars, rateVars, unitVars>>

MinOf(a, b) == IF a < b THEN a ELSE b

\* the provider call fails
Fails(op, id, name) == Call(run, op, id, name) \in failing

\* error.code of the error with which a failing call fails
errorCode(call) ==
  CASE call.op = "listMessages" -> 401
    [] call.op = "getMessage" -> (IF call.id = 1 THEN 401 ELSE 500)
    [] call.op = "createLabel" -> 409
    [] call.op = "addLabel" -> 404
    [] call.op = "removeInbox" -> 500
    [] call.op = "listFilters" -> 500
    [] call.op = "createFilter" -> 401

\* the metadata the provider returns for a message
MessageAt(id) == [PatternMail(scenario, id) EXCEPT !.labelIds = msgLabels[id]]

\* every message arrived on the first day
ArrivalDay(id) == 1

\* gmail.users.messages.list, all pages up to the limit; q = after:date
listMessages(since, limit) ==
  LET ids == SelectSeq([i \in 1..Len(msgLabels) |-> i],
                       LAMBDA id : ArrivalDay(id) >= since)
  IN  SubSeq(ids, 1, MinOf(Len(ids), limit))

\* where the run goes on after the fetch: processNewEmails returns when
\* messages.length === 0, main of index.js has no such test
afterFetch_NoEarlyReturn(e, n) == IF n = 0 THEN "confirm" ELSE "analyzing"
afterFetch(e, n) ==
  IF n = 0 THEN (IF e = "continuous" THEN "done" ELSE "confirm") ELSE "analyzing"

\* fetchEmails / fetchEmailsSince at the start of a run
FetchEmails ==
  /\ pc = "start"
  /\ ~Fails("listMessages", 0, "")
  /\ LET since == IF entry = "continuous" THEN checkpoint.lastProcessedDate ELSE 0
         ids   == listMessages(since, fetchLimit)
     IN  /\ messages' = ids
         /\ pc' = afterFetch(entry, Len(ids))
  /\ batchStart' = 0
  /\ UNCHANGED <<entry, run, configVars, providerVars, emailStats, filterVars,
                 historyVars, idleVars>>

\* the messages.list call fails: the error leaves the run
FetchFails ==
  /\ pc = "start"
  /\ Fails("listMessages", 0, "")
  /\ pc' = "aborted"
  /\ UNCHANGED <<entry, run, configVars, providerVars, analyzerVars, filterVars,
                 historyVars, idleVars>>

\* the category -> group switch of analyzeAllEmails
GroupOf(category) ==
  CASE category = "vip" -> "fromVIP"
    [] category = "protected" -> "protected"
    [] category = "newsletter" -> "newsletters"
    [] category = "promotional" -> "promotional"
    [] category = "social" -> "social"
    [] category = "forums" -> "forums"
    [] category = "automated" -> "automated"
    [] category = "receipt" -> "receipts"
    [] category = "confirmation" -> "confirmations"
    [] OTHER -> "unknown"

\* a loop that files a message without analysis under unknown
pushAnalysis_NullAsUnknown(stats, a, isNull) ==
  IF isNull THEN [stats EXCEPT !.unknown = Append(@, a)]
  ELSE [stats EXCEPT !.total = @ + 1, ![GroupOf(a.category)] = Append(@, a)]

\* a slip that counts a message before testing whether its analysis is null
pushAnalysis_CountNull(stats, a, isNull) ==
  IF isNull THEN [stats EXCEPT !.total = @ + 1]
  ELSE [stats EXCEPT !.total = @ + 1, ![GroupOf(a.category)] = Append(@, a)]

\* the body of analyses.forEach
pushAnalysis(stats, a, isNull) ==
  IF isNull THEN stats
  ELSE [stats EXCEPT !.total = @ + 1, ![GroupOf(a.category)] = Append(@, a)]

RECURSIVE foldBatch(_, _, _)
foldBatch(stats, batch, k) ==
  IF k > Len(batch) THEN stats
  ELSE foldBatch(
         pushAnalysis(stats,
                      analyze(vipEmails, protectedSenders, protectedKeywords,
                              batch[k], MessageAt(batch[k])),
                      Fails("getMessage", batch[k], "")),
         batch, k + 1)

\* one iteration of the loop of analyzeAllEmails: Promise.all over the batch,
\* analyzeEmail returning null for the messages whose fetch failed
AnalyzeBatch ==
  /\ pc = "analyzing"
  /\ LET batch == SubSeq(messages, batchStart + 1,
                         MinOf(batchStart + batchSize, Len(messages)))
     IN  emailStats' = foldBatch(emailStats, batch, 1)
  /\ batchStart' = batchStart + batchSize
  /\ pc' = IF batchStart' < Len(messages) THEN "analyzing" ELSE "confirm"
  /\ UNCHANGED <<entry, run, configVars, providerVars, messages, filterVars,
                 historyVars, idleVars>>

\* what the user may type at the prompt
Answers == {"y", "Y", "n", "yes"}

\* a prompt that goes on unless the user refuses
proceeds_UnlessNo(answer) == toLowerCase(answer) # "n"

\* proceed.toLowerCase() === 'y'
proceeds(answer) == toLowerCase(answer) = "y"

\* 'Apply filtering rules? (y/n)'
Confirm ==
  /\ pc = "confirm"
  /\ \E answer \in Answers :
        /\ steps' = Append(steps, "answered " \o toLowerCase(answer))
        /\ IF proceeds(answer)
           THEN /\ pc' = "labels"
                /\ filterSenders' = IF entry = "index" THEN Normalise(protectedSenders)
                                    ELSE <<>>
                /\ existingFilters' = NoCache
           ELSE /\ pc' = "done"
                /\ UNCHANGED <<filterSenders, existingFilters>>
  /\ UNCHANGED <<entry, run, configVars, providerVars, analyzerVars, createdLabels,
                 archived, createdRules, synthRuns, failing, checkpointAtStart,
                 createdCount, summary, idleVars>>

\* setupFilteringLabels: a label whose creation throws is left out of the map
SetupLabels ==
  /\ pc = "labels"
  /\ createdLabels' = {name \in LabelNames : ~Fails("createLabel", 0, name)}
  /\ pc' = "apply"
  /\ UNCHANGED <<entry, run, configVars, providerVars, analyzerVars, filterSenders,
                 existingFilters, historyVars, idleVars>>

\* the actions table of applyFiltersToExisting
actions ==
  << [group |-> "newsletters",   label |-> "Filtered/Newsletters", archive |-> TRUE],
     [group |-> "promotional",   label |-> "Filtered/Promotional", archive |-> TRUE],
     [group |-> "automated",     label |-> "Filtered/Automated",   archive |-> TRUE],
     [group |-> "social",        label |-> "Filtered/Social",      archive |-> FALSE],
     [group |-> "forums",        label |-> "Filtered/Forums",      archive |-> FALSE],
     [group |-> "fromVIP",       label |-> "VIP",                  archive |-> FALSE],
     [group |-> "protected",     label |-> "Protected",            archive |-> FALSE],
     [group |-> "receipts",      label |-> "Receipts",             archive |-> FALSE],
     [group |-> "confirmations", label |-> "Confirmations",        archive |-> FALSE] >>

\* number of iterations of for (i = 0; i < n; i += batchSize)
ChunkCount(n) == (n + chunkSize - 1) \div chunkSize

\* messageIds.slice(i, i + batchSize) of iteration c (from 1)
Chunk(ids, c) ==
  SubSeq(ids, (c - 1) * chunkSize + 1, MinOf(c * chunkSize, Len(ids)))

\* a loop that skips only the labelling of an entry without label
applyCalls_ArchiveUnlabelled ==
  { <<i, kind, c>> \in (DOMAIN actions) \X {"addLabel", "removeInbox"}
                          \X (1..ChunkCount(MaxMsgs + 1)) :
      /\ kind = "addLabel" => actions[i].label \in createdLabels
      /\ c <= ChunkCount(Len(emailStats[actions[i].group]))
      /\ kind = "removeInbox" => actions[i].archive }

\* the batchModify calls applyFiltersToExisting issues: <<entry of actions,
\* "addLabel" or "removeInbox", chunk>>; an entry without label or messages
\* is skipped
applyCalls ==
  { <<i, kind, c>> \in (DOMAIN actions) \X {"addLabel", "removeInbox"}
                          \X (1..ChunkCount(MaxMsgs + 1)) :
      /\ actions[i].label \in createdLabels
      /\ c <= ChunkCount(Len(emailStats[actions[i].group]))
      /\ kind = "removeInbox" => actions[i].archive }

groupIds(group) == [k \in 1..Len(emailStats[group]) |-> emailStats[group][k].id]

\* the ids of a call: messageIds.slice(i, i + batchSize)
callChunk(call) ==
  LET chunk == Chunk(groupIds(actions[call[1]].group), call[3])
  IN  {chunk[k] : k \in 1..Len(chunk)}

\* the ids of the calls of one kind
callIds(calls, kind) == UNION {callChunk(call) : call \in {x \in calls : x[2] = kind}}

\* the <<id, label>> pairs of the applyLabel calls
callLabels(calls) ==
  UNION { {<<id, actions[call[1]].label>> : id \in callChunk(call)} :
            call \in {x \in calls : x[2] = "addLabel"} }

\* applyFiltersToExisting: for every entry of actions, applyLabel on every
\* chunk, then archiveMessages on every chunk; a failed chunk is only logged
ApplyFilters ==
  /\ pc = "apply"
  /\ LET ok       == {x \in applyCalls : ~Fails(x[2], x[3], actions[x[1]].label)}
         labelled == callLabels(ok)
         removed  == callIds(ok, "removeInbox")
     IN  /\ msgLabels' =
              [id \in DOMAIN msgLabels |->
                 (msgLabels[id] \cup {q[2] : q \in {x \in labelled : x[1] = id}})
                    \ (IF id \in removed THEN {"INBOX"} ELSE {})]
         /\ archived' = archived \cup removed
  /\ steps' = Append(steps, "applyFiltersToExisting")
  /\ pc' = "synth"
  /\ UNCHANGED <<entry, run, configVars, scenario, filters, today, checkpoint,
                 analyzerVars, createdLabels, filterSenders, existingFilters,
                 createdRules, synthRuns, failing, checkpointAtStart, createdCount,
                 summary, idleVars>>

\* Object.keys(senderCount): the distinct non-empty fromEmail, first seen first
RECURSIVE senderKeys(_, _, _)
senderKeys(emails, k, acc) ==
  IF k > Len(emails) THEN acc
  ELSE LET e == emails[k].fromEmail
       IN  senderKeys(emails, k + 1,
                      IF e = "" \/ arrIncludes(acc, e) THEN acc ELSE Append(acc, e))

senderCount(emails, sender) ==
  Cardinality({k \in 1..Len(emails) : emails[k].fromEmail = sender})

\* a selection that keeps every sender of the group
getFrequentSenders_Any(emails, minFreq) == senderKeys(emails, 1, <<>>)

getFrequentSenders(emails, minFreq) ==
  SelectSeq(senderKeys(emails, 1, <<>>),
            LAMBDA sender : senderCount(emails, sender) >= minFreq)

\* a lookup that finds no rule
filterExists_Never(cache, from) == FALSE

\* EmailFilter.filterExists on the cached rule list
filterExists(cache, from) == \E k \in DOMAIN cache : cache[k].from = from

\* EmailFilter.isProtectedSender
filterIsProtectedSender(email) ==
  isProtectedSender(email, filterSenders) \/ isFromProtectedDomain(email)

\* a block that also takes a group of exactly minCategorySize messages
blockCandidates_Inclusive(group, label) ==
  IF Len(emailStats[group]) >= minCategorySize
  THEN LET senders == getFrequentSenders(emailStats[group], minFrequency)
       IN  [k \in 1..Len(senders) |-> [sender |-> senders[k], label |-> label]]
  ELSE <<>>

\* the senders of one block of createFilters, with the label of their rule
blockCandidates(group, label) ==
  IF Len(emailStats[group]) > minCategorySize
  THEN LET senders == getFrequentSenders(emailStats[group], minFrequency)
       IN  [k \in 1..Len(senders) |-> [sender |-> senders[k], label |-> label]]
  ELSE <<>>

\* what createFilters reads of analysisResults: the senders of three groups
sendersOf(group) == [k \in 1..Len(emailStats[group]) |-> emailStats[group][k].fromEmail]
aggregates ==
  <<sendersOf("newsletters"), sendersOf("promotional"), sendersOf("automated")>>

\* the senders createFilters loops over, in order
candidates ==
  blockCandidates("newsletters", "Filtered/Newsletters")
    \o blockCandidates("promotional", "Filtered/Promotional")
    \o blockCandidates("automated", "Filtered/Automated")

\* a test that takes an empty rule list for no list
isCached_NonEmpty(cache) == cache.fetched /\ Len(cache.list) > 0

\* if (this.existingFilters): null before the first fetch, then an array,
\* and an array is truthy also when it is empty
isCached(cache) == cache.fetched

\* the filters.list calls of n successive getExistingFilters() calls
RECURSIVE listCalls(_, _)
listCalls(cache, n) ==
  IF n = 0 THEN 0
  ELSE IF isCached(cache) THEN listCalls(cache, n - 1)
  ELSE 1 + listCalls([fetched |-> TRUE, list |-> filters], n - 1)

RECURSIVE createEach(_, _, _)

\* a loop that a failed creation leaves
afterCreateError_Stop(attempts, k, rules) == rules

\* catch (error) { errors.push(...) }: the loop goes on with the next sender
afterCreateError(attempts, k, rules) == createEach(attempts, k + 1, rules)

\* the try block for the senders attempts[k..]: rateLimiter.wait() and
\* withRetry(filters.create); it throws when labels[...] is undefined or the
\* provider refuses; rules are the rules created so far
createEach(attempts, k, rules) ==
  IF k > Len(attempts) THEN rules
  ELSE IF \/ attempts[k].label \notin createdLabels
          \/ Fails("createFilter", 0, attempts[k].sender)
       THEN afterCreateError(attempts, k, rules)
       ELSE createEach(attempts, k + 1,
                       Append(rules, Rule(attempts[k].sender, attempts[k].label)))

\* what displayFilteringSummary prints of analysisResults
filteringSummary(stats) ==
  [archived |-> Len(stats.newsletters) + Len(stats.promotional) + Len(stats.automated),
   kept |-> Len(stats.social) + Len(stats.forums) + Len(stats.receipts)
              + Len(stats.confirmations),
   fromVIP |-> Len(stats.fromVIP),
   receipts |-> Len(stats.receipts),
   confirmations |-> Len(stats.confirmations)]

\* createFilters, then displayFilteringSummary: for each candidate that has
\* no rule in the cached list and is not protected, the try block; createdCount
\* counts the creations that did not throw
CreateFilters ==
  /\ pc = "synth"
  /\ ~(Len(candidates) > 0 /\ ~isCached(existingFilters) /\ Fails("listFilters", 0, ""))
  /\ LET cache    == IF isCached(existingFilters) THEN existingFilters.list ELSE filters
         attempts == SelectSeq(candidates,
                        LAMBDA c : /\ ~filterExists(cache, c.sender)
                                   /\ ~filterIsProtectedSender(c.sender))
         rules    == createEach(attempts, 1, <<>>)
     IN  /\ filters' = filters \o rules
         /\ createdRules' = createdRules \o rules
         /\ createdCount' = Len(rules)
         /\ synthRuns' = Append(synthRuns, aggregates)
         /\ existingFilters' =
              IF Len(candidates) > 0 THEN [fetched |-> TRUE, list |-> cache]
              ELSE existingFilters
  /\ summary' = filteringSummary(emailStats)
  /\ steps' = steps \o [j \in 1..listCalls(existingFilters, Len(candidates)) |->
                           "listFilters"] \o <<"createFilters">>
  /\ pc' = IF entry = "continuous" THEN "checkpoint" ELSE "done"
  /\ UNCHANGED <<entry, run, configVars, scenario, msgLabels, today, checkpoint,
                 analyzerVars, createdLabels, filterSenders, archived, failing,
                 checkpointAtStart, idleVars>>

\* the filters.list call of getExistingFilters fails: the error leaves
\* createFilters and the run
ListFiltersFails ==
  /\ pc = "synth"
  /\ Len(candidates) > 0
  /\ ~isCached(existingFilters)
  /\ Fails("listFilters", 0, "")
  /\ steps' = steps \o <<"listFilters", "createFilters">>
  /\ pc' = "aborted"
  /\ UNCHANGED <<entry, run, configVars, providerVars, analyzerVars, filterVars,
                 archived, createdRules, synthRuns, failing, checkpointAtStart,
                 createdCount, summary, idleVars>>

\* the merge of an older revision: only the new data and lastRun
mergeCheckpoint_Replace(current, newData, lastRun) ==
  [k \in DOMAIN newData \cup {"lastRun"} |->
     IF k = "lastRun" THEN lastRun ELSE newData[k]]

\* { ...current, ...newData, lastRun: new Date().toISOString() }
mergeCheckpoint(current, newData, lastRun) ==
  [k \in DOMAIN current \cup DOMAIN newData \cup {"lastRun"} |->
     IF k = "lastRun" THEN lastRun
     ELSE IF k \in DOMAIN newData THEN newData[k]
     ELSE current[k]]

\* a counter that is set to the size of the last run
newTotal_Overwrite(stored, n) == n

\* checkpoint.totalProcessed + messages.length
newTotal(stored, n) == stored + n

\* the end of processNewEmails after the user confirmed
UpdateCheckpoint ==
  /\ pc = "checkpoint"
  /\ checkpoint' = mergeCheckpoint(checkpoint,
                      [lastProcessedDate |-> today,
                       totalProcessed |->
                         newTotal(checkpoint.totalProcessed, Len(messages))],
                      today)
  /\ steps' = Append(steps, "updateCheckpoint")
  /\ pc' = "done"
  /\ UNCHANGED <<entry, run, configVars, scenario, msgLabels, filters, today,
                 analyzerVars, filterVars, archived, createdRules, synthRuns,
                 failing, checkpointAtStart, createdCount, summary, idleVars>>

\* the user starts the program again: new EmailAnalyzer, new EmailFilter
Restart ==
  /\ pc \in {"done", "aborted"}
  /\ run < MaxRuns
  /\ run' = run + 1
  /\ pc' = "start"
  /\ messages' = <<>>
  /\ batchStart' = 0
  /\ emailStats' = InitStats
  /\ createdLabels' = {}
  /\ filterSenders' = <<>>
  /\ existingFilters' = NoCache
  /\ archived' = {}
  /\ createdRules' = <<>>
  /\ steps' = <<>>
  /\ checkpointAtStart' = checkpoint
  /\ createdCount' = 0
  /\ summary' = <<>>
  /\ UNCHANGED <<entry, configVars, providerVars, synthRuns, failing, idleVars>>

\* the date changes while the program waits for the user or is not running
\* (index.js never reads the date)
Midnight ==
  /\ entry = "continuous"
  /\ pc \in {"confirm", "done", "aborted"}
  /\ today < MaxDay
  /\ today' = today + 1
  /\ UNCHANGED <<pc, entry, run, configVars, scenario, msgLabels, filters,
                 checkpoint, analyzerVars, filterVars, historyVars, idleVars>>

Next ==
  \/ FetchEmails
  \/ FetchFails
  \/ AnalyzeBatch
  \/ Confirm
  \/ SetupLabels
  \/ ApplyFilters
  \/ CreateFilters
  \/ ListFiltersFails
  \/ UpdateCheckpoint
  \/ Restart
  \/ Midnight

Spec == Init /\ [][Next]_vars

(***************************************************************************)
(* SpecApply: applyFiltersToExisting call by call.  The groups are given   *)
(* by their sizes; the ids of entry k of actions are k * idBase + 1 ...    *)
(* Every batchModify call succeeds or throws, as the provider chooses.     *)
(***************************************************************************)
idBase == 1000

\* emails.length of the entries of actions: newsletters, promotional, social
NewsletterSizes == {0, 1, 50, 51, 123}
PromotionalSizes == {0, 100}
SocialSizes == {0, 2}

\* action.emails.map(email => email.id) of entry k
messageIds(k) == [j \in 1..groupSizes[k] |-> k * idBase + j]

\* action.labelId && action.emails.length > 0
applies(k) == actions[k].label \in labelNames /\ groupSizes[k] > 0

End == [action |-> Len(actions) + 1, op |-> "", i |-> 0]

\* the first call of the entries from k on
RECURSIVE firstCall(_)
firstCall(k) ==
  IF k > Len(actions) THEN End
  ELSE IF applies(k) THEN [action |-> k, op |-> "addLabel", i |-> 0]
  ELSE firstCall(k + 1)

\* the call after the one at p: the next chunk of the loop of applyLabel or
\* archiveMessages, then archiveMessages if action.archive, then the next entry
advance(p) ==
  IF p.i + chunkSize < groupSizes[p.action]
  THEN [p EXCEPT !.i = p.i + chunkSize]
  ELSE IF p.op = "addLabel" /\ actions[p.action].archive
       THEN [action |-> p.action, op |-> "removeInbox", i |-> 0]
       ELSE firstCall(p.action + 1)

\* where the loops go on when the call at p has thrown: the catch block is
\* inside the loop and only logs
afterFailure_Return(p) ==
  IF p.op = "addLabel" /\ actions[p.action].archive
  THEN [action |-> p.action, op |-> "removeInbox", i |-> 0]
  ELSE firstCall(p.action + 1)
afterFailure(p) == advance(p)

\* messageIds.slice(i, i + batchSize)
slice_Inclusive(ids, i) == SubSeq(ids, i + 1, MinOf(i + chunkSize + 1, Len(ids)))
slice(ids, i) == SubSeq(ids, i + 1, MinOf(i + chunkSize, Len(ids)))

InitApply ==
  /\ pc = "applying"
  /\ \E n \in NewsletterSizes, p \in PromotionalSizes, q \in SocialSizes :
        groupSizes = [k \in DOMAIN actions |->
                        CASE k = 1 -> n [] k = 2 -> p [] k = 4 -> q [] OTHER -> 0]
  /\ labelNames \in {LabelNames, LabelNames \ {"Filtered/Promotional"}}
  /\ position = firstCall(1)
  /\ batchCalls = <<>>
  /\ NoRetry
  /\ NoResume
  /\ NoLabel
  /\ NoTools
  /\ NoStore
  /\ NoConfig
  /\ NoClassify
  /\ NoMatcher
  /\ NoLimiter
  /\ NoRun

\* what applyLabel and archiveMessages run before and around batchModify:
\* the call is the whole body of the try block, with neither
\* this.rateLimiter.wait() before it nor withRetry around it
callWrappers(op) == <<>>

\* one gmail.users.messages.batchModify call of applyLabel / archiveMessages
BatchModify ==
  /\ pc = "applying"
  /\ position # End
  /\ \E ok \in BOOLEAN :
        /\ batchCalls' = Append(batchCalls,
              [action |-> position.action, op |-> position.op,
               ids |-> slice(messageIds(position.action), position.i), ok |-> ok,
               through |-> callWrappers(position.op)])
        /\ position' = IF ok THEN advance(position) ELSE afterFailure(position)
  /\ UNCHANGED <<pc, groupSizes, labelNames, retryVars, resumeVars, storeVars,
                 toolVars, labelVars, configVars,
                 classifyVars, matchVars, rateVars, runVars>>

\* the loop over actions has ended: spinner.succeed, return
ApplyReturns ==
  /\ pc = "applying"
  /\ position = End
  /\ pc' = "applied"
  /\ UNCHANGED <<applyVars, retryVars, resumeVars, storeVars, toolVars, labelVars, configVars, classifyVars,
                 matchVars, rateVars, runVars>>

NextApply == BatchModify \/ ApplyReturns

SpecApply == InitApply /\ [][NextApply]_vars

(***************************************************************************)
(* SpecResume: successive processNewEmails runs of continuous.js against a *)
(* mailbox that receives mail.  A message is its arrival day; analysis is  *)
(* reduced to the set of ids a run fetched and analysed.                   *)
(***************************************************************************)
MaxInbox == 502     \* messages the mailbox may hold
LastDay == 3        \* calendar days a behaviour spans
MaxResumes == 3     \* processNewEmails runs in a behaviour

\* how many messages arrive together: half the fetch limit, or one more
ArrivalCounts == {fetchLimit \div 2, fetchLimit \div 2 + 1}

\* messages.list with q = after:date (0: no q), newest first, at most limit
\* ids over all pages; inbox is in arrival order, so the matches are the ids
\* from the first match on
listNewest(since, limit) ==
  LET first == Cardinality({id \in DOMAIN inbox : inbox[id] < since}) + 1
      from  == IF Len(inbox) - limit + 1 > first THEN Len(inbox) - limit + 1 ELSE first
  IN  from..Len(inbox)

InitResume ==
  /\ pc = "idle"
  /\ today = 1
  /\ checkpoint = NoCheckpoint
  /\ messages = <<>>
  /\ inbox = <<>>
  /\ classified = {}
  /\ firstStored = 0
  /\ NoRetry
  /\ NoApply
  /\ NoStore
  /\ NoLabel
  /\ NoTools
  /\ NoConfig
  /\ NoClassify
  /\ NoMatcher
  /\ NoLimiter
  /\ NoAccount

\* mail arrives
Arrive ==
  /\ pc = "idle"
  /\ \E n \in ArrivalCounts :
        /\ Len(inbox) + n <= MaxInbox
        /\ inbox' = inbox \o [j \in 1..n |-> today]
  /\ UNCHANGED <<pc, today, checkpoint, messages, classified, firstStored, retryVars,
                 applyVars, storeVars, toolVars, labelVars, configVars, classifyVars, matchVars, rateVars, entry, run,
                 scenario, msgLabels, filters, batchStart, emailStats, filterVars, historyVars>>

\* processNewEmails: load the checkpoint, fetch, analyse, ask, and when the
\* user confirms apply, synthesize and store today as lastProcessedDate
ProcessNewEmails ==
  /\ pc = "idle"
  /\ run < MaxResumes
  /\ run' = run + 1
  /\ LET ids == listNewest(checkpoint.lastProcessedDate, fetchLimit)
     IN  /\ messages' = [j \in 1..Cardinality(ids) |-> j]
         /\ classified' = classified \cup ids
         /\ \E answer \in {"y", "n"} :
               IF ids # {} /\ answer = "y"
               THEN /\ checkpoint' = mergeCheckpoint(checkpoint,
                          [lastProcessedDate |-> today,
                           totalProcessed |-> checkpoint.totalProcessed + Cardinality(ids)],
                          today)
                    /\ firstStored' = IF firstStored = 0 THEN today ELSE firstStored
               ELSE UNCHANGED <<checkpoint, firstStored>>
  /\ UNCHANGED <<pc, today, inbox, retryVars, applyVars, storeVars, toolVars, labelVars, configVars,
                 classifyVars,
                 matchVars, rateVars, entry, scenario, msgLabels, filters,
                 batchStart, emailStats, filterVars, historyVars>>

\* the date changes
NextDay ==
  /\ pc = "idle"
  /\ today < LastDay
  /\ today' = today + 1
  /\ UNCHANGED <<pc, checkpoint, messages, resumeVars, retryVars, applyVars, storeVars,
                 toolVars, labelVars, configVars, classifyVars, matchVars, rateVars, entry, run, scenario,
                 msgLabels, filters, batchStart, emailStats, filterVars, historyVars>>

NextResume == Arrive \/ ProcessNewEmails \/ NextDay

SpecResume == InitResume /\ [][NextResume]_vars

(***************************************************************************)
(* SpecStore: loadCheckpoint and updateCheckpoint on .checkpoint.json.     *)
(* An object is a function from its keys; null is 0; the clock is now.     *)
(***************************************************************************)
MaxTime == 3        \* the clock runs from 1 to MaxTime

\* what is at the path of the checkpoint file
Absent == [kind |-> "absent", data |-> <<>>]
Unreadable == [kind |-> "unreadable", data |-> <<>>]
Corrupt == [kind |-> "corrupt", data |-> <<>>]
Json(object) == [kind |-> "json", data |-> object]

Resolved(v) == [kind |-> "returned", value |-> v]
Rejected == [kind |-> "threw", value |-> <<>>]

\* the arguments updateCheckpoint is called with, besides the loaded value
Partials ==
  { <<>>,
    [lastProcessedDate |-> 2],
    [totalProcessed |-> 7],
    [lastProcessedDate |-> 3, totalProcessed |-> 9] }

\* loadCheckpoint: JSON.parse(readFile) in try; catch: the defaults
loadCheckpoint_NoCatch(f) ==
  IF f.kind = "json" THEN Resolved(f.data) ELSE Rejected
loadCheckpoint(f) ==
  IF f.kind = "json" THEN Resolved(f.data) ELSE Resolved(NoCheckpoint)

NoCall == [arg |-> <<>>, current |-> <<>>, at |-> 0, result |-> Rejected]

InitStore ==
  /\ pc = "idle"
  /\ now = 1
  /\ file \in {Absent, Unreadable,
               Json([lastProcessedDate |-> 1, totalProcessed |-> 5, lastRun |-> 1])}
  /\ loaded = Resolved(<<>>)
  /\ updateCall = NoCall
  /\ lastOps = <<>>
  /\ lastRequest = 0 /\ waiters = <<>> /\ releases = <<>>
  /\ NoRetry
  /\ NoApply
  /\ NoResume
  /\ NoLabel
  /\ NoTools
  /\ NoConfig
  /\ NoClassify
  /\ NoMatcher
  /\ NoRun

Last2(ops, op) == IF Len(ops) = 0 THEN <<op>> ELSE <<ops[Len(ops)], op>>

\* a call of loadCheckpoint()
LoadCheckpoint ==
  /\ pc = "idle"
  /\ loaded' = loadCheckpoint(file)
  /\ lastOps' = Last2(lastOps, "load")
  /\ UNCHANGED <<pc, now, file, updateCall, lastRequest, waiters, releases, retryVars,
                 applyVars, resumeVars, toolVars, labelVars, configVars, classifyVars, matchVars, runVars>>

\* a call of updateCheckpoint(newData): load, merge, saveCheckpoint; writeFile
\* succeeds or throws
CallUpdateCheckpoint ==
  /\ pc = "idle"
  /\ \E newData \in Partials \cup {loaded.value}, written \in BOOLEAN :
        LET current == loadCheckpoint(file)
            updated == mergeCheckpoint(current.value, newData, now)
        IN  /\ current.kind = "returned"
            /\ file' = IF written THEN Json(updated) ELSE file
            /\ updateCall' = [arg |-> newData, current |-> current.value, at |-> now,
                              result |-> IF written THEN Resolved(updated) ELSE Rejected]
  /\ lastOps' = Last2(lastOps, "update")
  /\ UNCHANGED <<pc, now, loaded, lastRequest, waiters, releases, retryVars, applyVars,
                 resumeVars, toolVars, labelVars, configVars, classifyVars, matchVars, runVars>>

\* the file is deleted, made unreadable or overwritten with text that is
\* not JSON
FileDamaged ==
  /\ pc = "idle"
  /\ file' \in {Absent, Unreadable, Corrupt} \ {file}
  /\ lastOps' = Last2(lastOps, "damage")
  /\ UNCHANGED <<pc, now, loaded, updateCall, lastRequest, waiters, releases,
                 retryVars, applyVars, resumeVars, toolVars, labelVars, configVars, classifyVars, matchVars,
                 runVars>>

TimePasses ==
  /\ pc = "idle"
  /\ now < MaxTime
  /\ now' = now + 1
  /\ UNCHANGED <<pc, storeVars, lastRequest, waiters, releases, retryVars, applyVars,
                 resumeVars, toolVars, labelVars, configVars, classifyVars, matchVars, runVars>>

NextStore == LoadCheckpoint \/ CallUpdateCheckpoint \/ FileDamaged \/ TimePasses

SpecStore == InitStore /\ [][NextStore]_vars

(***************************************************************************)
(* SpecLabel: the helpers that ensure a label by name, called one after    *)
(* the other against one account: EmailFilter.createLabel and the          *)
(* ensureLabel of FilterImprover and of ImprovedFilterManager.  The        *)
(* provider refuses to create a label whose name exists.                   *)
(***************************************************************************)
MaxLabelCalls == 3   \* calls of the helpers in a behaviour

EnsuredNames == {"VIP", "Receipts", "Filtered/Newsletters"}

Label(id, name) == [id |-> id, name |-> name]
Undefined == Label(0, "")

\* labels.find(label => label.name === labelName): the first one, or undefined
findLabel(labels, name) ==
  IF \E k \in DOMAIN labels : labels[k].name = name
  THEN labels[CHOOSE k \in DOMAIN labels :
                 /\ labels[k].name = name
                 /\ \A j \in 1..(k - 1) : labels[j].name # name]
  ELSE Undefined

\* gmail.users.labels.create: throws 'Label name exists or conflicts' when
\* the account has a label of that name, else adds one with a fresh id
labelsCreate(labels, name) ==
  IF findLabel(labels, name) # Undefined
  THEN [labels |-> labels, threw |-> TRUE, data |-> Undefined]
  ELSE [labels |-> Append(labels, Label(Len(labels) + 1, name)), threw |-> FALSE,
        data |-> Label(Len(labels) + 1, name)]

\* EmailFilter.createLabel: create first; on 'Label name exists' list and find
createLabel(labels, name) ==
  LET created == labelsCreate(labels, name)
  IN  IF created.threw
      THEN [labels |-> created.labels, threw |-> FALSE,
            id |-> findLabel(created.labels, name).id]
      ELSE [labels |-> created.labels, threw |-> FALSE, id |-> created.data.id]

\* a helper that creates without looking the name up
ensureLabel_NoLookup(labels, name) ==
  LET created == labelsCreate(labels, name)
  IN  [labels |-> created.labels, threw |-> created.threw, id |-> created.data.id]

\* ensureLabel: list and find; create when there is none; an error is rethrown
ensureLabel(labels, name) ==
  IF findLabel(labels, name) # Undefined
  THEN [labels |-> labels, threw |-> FALSE, id |-> findLabel(labels, name).id]
  ELSE LET created == labelsCreate(labels, name)
       IN  [labels |-> created.labels, threw |-> created.threw, id |-> created.data.id]

InitLabel ==
  /\ pc = "idle"
  /\ providerLabels \in {<<>>, <<Label(1, "INBOX"), Label(2, "VIP")>>}
  /\ labelCalls = <<>>
  /\ NoRetry
  /\ NoApply
  /\ NoResume
  /\ NoStore
  /\ NoTools
  /\ NoConfig
  /\ NoClassify
  /\ NoMatcher
  /\ NoLimiter
  /\ NoRun

LabelCall(fn, name, result) ==
  /\ Len(labelCalls) < MaxLabelCalls
  /\ providerLabels' = result.labels
  /\ labelCalls' = Append(labelCalls,
                          [fn |-> fn, name |-> name, threw |-> result.threw,
                           id |-> result.id])
  /\ UNCHANGED <<pc, retryVars, applyVars, resumeVars, storeVars, toolVars, configVars,
                 classifyVars, matchVars, rateVars, runVars>>

\* setupFilteringLabels calls createLabel(name); label.id is the id it uses
CreateLabel ==
  \E name \in EnsuredNames :
     LabelCall("EmailFilter.createLabel", name, createLabel(providerLabels, name))

\* a call of ensureLabel(name) of either class
EnsureLabel ==
  \E fn \in {"FilterImprover.ensureLabel", "ImprovedFilterManager.ensureLabel"},
     name \in EnsuredNames :
     LabelCall(fn, name, ensureLabel(providerLabels, name))

NextLabel == CreateLabel \/ EnsureLabel

SpecLabel == InitLabel /\ [][NextLabel]_vars

(***************************************************************************)
(* SpecInbox: the inbox batch processor.  The inbox is the ids             *)
(* 1..inboxSize, listed in that order, less the archived ones; a page      *)
(* token is the id of the last message of the page it follows, null is 0.  *)
(***************************************************************************)
inboxPageSize == 500   \* the batchSize processBatch passes to fetchInboxEmails
MaxBatches == 3        \* batches of a behaviour

InboxSizes == {0, 300, 500, 501, 1200}
InboxKinds == {"all", "none", "even"}

coreVars ==
  <<configVars, classifyVars, matchVars, rateVars, runVars, retryVars,
    applyVars, resumeVars, storeVars, labelVars>>

NoCore ==
  /\ NoConfig /\ NoClassify /\ NoMatcher /\ NoLimiter /\ NoRun /\ NoRetry
  /\ NoApply /\ NoResume /\ NoStore /\ NoLabel

\* the messages of a batch that analysis puts in newsletters, promotional or
\* automated: the ones applyFiltersToExisting archives
archivable(kind, id) ==
  \/ kind = "all"
  \/ kind = "even" /\ id % 2 = 0

\* gmail.users.messages.list({labelIds, maxResults, pageToken}) on the ids
\* that carry the label: the maxResults ids after the token, and a token for
\* the next page when ids remain after them
messagesList(labelled, maxResults, pageToken) ==
  LET after == {id \in labelled : id > pageToken}
      page == {id \in after : Cardinality({j \in after : j < id}) < maxResults}
      last == IF page = {} THEN 0 ELSE CHOOSE id \in page : \A j \in page : j <= id
  IN  [messages |-> page,
       nextPageToken |-> IF after \ page = {} THEN 0 ELSE last]

\* fetchInboxEmails(gmail, batchSize = 500, pageToken = null)
fetchInboxEmails(labelled, size, pageToken) ==
  messagesList(labelled, size, pageToken)

\* the page token processBatch has for its fetch: none, the parameter of
\* fetchInboxEmails keeps its default
batchPageToken(mainToken) == 0

InitInbox ==
  /\ pc = "main"
  /\ inboxSize \in InboxSizes
  /\ inboxKind \in InboxKinds
  /\ inboxArchived = {}
  /\ batchNumber = 1
  /\ batchToken = 0
  /\ batchPage = <<>>
  /\ batchFetches = <<>>
  /\ NoCleanup
  /\ NoSpam
  /\ NoCore

Inbox == (1..inboxSize) \ inboxArchived

\* processBatch up to its prompt: fetch and analyse; it returns at once when
\* the page is empty, and main leaves its loop
FetchBatch ==
  /\ pc = "main"
  /\ batchNumber <= MaxBatches
  /\ LET used == batchPageToken(batchToken)
         page == fetchInboxEmails(Inbox, inboxPageSize, used)
     IN  /\ batchFetches' = Append(batchFetches,
                                   [pageToken |-> used, messages |-> page.messages,
                                    nextPageToken |-> page.nextPageToken])
         /\ IF page.messages = {}
            THEN /\ pc' = "done"
                 /\ batchToken' = 0
                 /\ batchNumber' = batchNumber + 1
                 /\ batchPage' = <<>>
            ELSE /\ pc' = "apply"
                 /\ batchPage' = page
                 /\ UNCHANGED <<batchToken, batchNumber>>
  /\ UNCHANGED <<inboxSize, inboxKind, inboxArchived, cleanupVars, spamVars,
                 coreVars>>

\* the rest of processBatch after 'Apply filtering rules to this batch?', and
\* the assignments of main from its result; a chunk that the provider
\* refuses leaves its messages in the inbox
ApplyBatch ==
  /\ pc = "apply"
  /\ \E answer \in Answers, ok \in BOOLEAN :
        /\ inboxArchived' =
             IF toLowerCase(answer) = "y" /\ ok
             THEN inboxArchived \cup
                    {id \in batchPage.messages : archivable(inboxKind, id)}
             ELSE inboxArchived
        /\ batchToken' = batchPage.nextPageToken
        /\ IF batchPage.nextPageToken # 0
           THEN /\ pc' = "next"
                /\ UNCHANGED batchNumber
           ELSE /\ pc' = "done"
                /\ batchNumber' = batchNumber + 1
  /\ batchPage' = <<>>
  /\ UNCHANGED <<inboxSize, inboxKind, batchFetches, cleanupVars, spamVars,
                 coreVars>>

\* main after 'Process next batch from inbox?'
NextBatch ==
  /\ pc = "next"
  /\ \E answer \in Answers :
        IF toLowerCase(answer) # "y"
        THEN /\ pc' = "done"
             /\ UNCHANGED batchNumber
        ELSE /\ pc' = "main"
             /\ batchNumber' = batchNumber + 1
  /\ UNCHANGED <<inboxSize, inboxKind, inboxArchived, batchToken, batchPage,
                 batchFetches, cleanupVars, spamVars, coreVars>>

NextInbox == FetchBatch \/ ApplyBatch \/ NextBatch

SpecInbox == InitInbox /\ [][NextInbox]_vars

(***************************************************************************)
(* SpecCleanup: one run of the filter cleanup tool (cleanupFilters.js)     *)
(* against an account.  A rule of the account is a record of its id, its   *)
(* criteria.from, its action.addLabelIds and whether it has a              *)
(* criteria.query.                                                         *)
(***************************************************************************)
MaxRules == 3   \* rules of the account

CLEANUP_PROTECTED_DOMAINS ==
  <<"chase.com", "capitalone.com", "paypal.com", "venmo.com", "mercury.com",
    "rippling.com", "uber.com", "lyft.com", "doordash.com", "google.com",
    "github.com", "discord.com", "opentable.com", "united.com", "delta.com",
    "walgreens.com", "coinbase.com", "robinhood.com", "apple.com", "citi.com">>

OVERLY_BROAD_PATTERNS ==
  <<"donotreply@", "members@", "verify@", "no-reply@", "noreply@", "alerts@",
    "notification@", "notify@">>

\* the rules an account may hold, less their ids
RuleTemplates ==
  { [from |-> "news@x.com", addLabelIds |-> <<"Label_1">>, query |-> FALSE],
    [from |-> "alerts@paypal.com", addLabelIds |-> <<"TRASH">>, query |-> FALSE],
    [from |-> "billing@uber.com", addLabelIds |-> <<"Label_9">>, query |-> FALSE],
    [from |-> "noreply@", addLabelIds |-> <<"Label_1">>, query |-> FALSE],
    [from |-> "noreply@uber.com", addLabelIds |-> <<"Label_1">>, query |-> TRUE] }

AccountRule(id, t) ==
  [id |-> id, from |-> t.from, addLabelIds |-> t.addLabelIds, query |-> t.query]

RuleSets ==
  UNION { { [k \in 1..n |-> AccountRule(k, ts[k])] : ts \in [1..n -> RuleTemplates] }
          : n \in 0..MaxRules }

ArgLists == {<<>>, <<"--apply">>, <<"--dry-run">>, <<"--verbose", "--apply">>}

\* labelMap.get(id) || id, for the labels of the account
labelNameOf(id) ==
  CASE id = "Label_1" -> "Filtered/Newsletters"
    [] id = "Label_9" -> "Likely Spam"
    [] OTHER -> id

isProtectedDomain(email) ==
  \E k \in DOMAIN CLEANUP_PROTECTED_DOMAINS :
     includes(email, CLEANUP_PROTECTED_DOMAINS[k])

isOverlyBroad(from) ==
  \E k \in DOMAIN OVERLY_BROAD_PATTERNS :
     LET pattern == OVERLY_BROAD_PATTERNS[k]
         afterPrefix == SubSeq(from, Len(pattern) + 1, Len(from))
     IN  \/ from = pattern
         \/ /\ startsWith(from, pattern)
            /\ (~includes(afterPrefix, ".") \/ Len(afterPrefix) < 4)

\* the groups of rules with one criteria.from, in the order of the first rule
\* of each, when they have more than one
duplicatesOf(rules) ==
  LET firsts == SelectSeq([k \in DOMAIN rules |-> k],
                          LAMBDA k : /\ rules[k].from # ""
                                     /\ \A j \in 1..(k - 1) : rules[j].from # rules[k].from)
      group(k) == SelectSeq(rules, LAMBDA r : r.from = rules[k].from)
      many == SelectSeq(firsts, LAMBDA k : Len(group(k)) > 1)
  IN  [i \in DOMAIN many |->
         [from |-> rules[many[i]].from, count |-> Len(group(many[i])),
          filters |-> group(many[i])]]

marksSpam(r) ==
  \/ arrIncludes(r.addLabelIds, "TRASH")
  \/ \E k \in DOMAIN r.addLabelIds : includes(toLowerCase(r.addLabelIds[k]), "spam")

marksSpamByName(r) ==
  \E k \in DOMAIN r.addLabelIds :
     includes(toLowerCase(labelNameOf(r.addLabelIds[k])), "spam")

\* analyzeFilters: the issues of the rules
analyzeFilters(rules) ==
  LET byId == SelectSeq(rules, LAMBDA r : isProtectedDomain(r.from) /\ marksSpam(r))
      byName == SelectSeq(rules, LAMBDA r : /\ isProtectedDomain(r.from)
                                            /\ marksSpamByName(r)
                                            /\ ~marksSpam(r))
  IN  [duplicates |-> duplicatesOf(rules),
       protectedMarkedSpam |-> byId \o byName,
       overlyBroad |-> SelectSeq(rules, LAMBDA r : isOverlyBroad(r.from) /\ ~r.query)]

RECURSIVE duplicateIds(_)
duplicateIds(dups) ==
  IF dups = <<>> THEN <<>>
  ELSE LET rest == Tail(Head(dups).filters)
       IN  [k \in DOMAIN rest |-> rest[k].id] \o duplicateIds(Tail(dups))

\* the toDelete list of fixIssues, by id
toDeleteOf(found) ==
  duplicateIds(found.duplicates)
    \o [k \in DOMAIN found.protectedMarkedSpam |-> found.protectedMarkedSpam[k].id]
    \o [k \in DOMAIN found.overlyBroad |-> found.overlyBroad[k].id]

\* main: a dry run unless the arguments hold --apply
dryRunOf_OnRequest(args) == arrIncludes(args, "--dry-run")
dryRunOf(args) == ~arrIncludes(args, "--apply")

\* filters.delete on each id in turn; the calls in refused throw, and so does
\* a call for a rule that is no more
RECURSIVE deleteEach(_, _, _, _)
deleteEach(rules, ids, k, refused) ==
  IF k > Len(ids) THEN [rules |-> rules, deleted |-> 0]
  ELSE LET there == \E j \in DOMAIN rules : rules[j].id = ids[k]
           done == there /\ k \notin refused
           rest == deleteEach(IF done
                              THEN SelectSeq(rules, LAMBDA r : r.id # ids[k])
                              ELSE rules,
                              ids, k + 1, refused)
       IN  [rules |-> rest.rules, deleted |-> rest.deleted + (IF done THEN 1 ELSE 0)]

\* fixIssues(issues, dryRun): what it returns, the delete calls it makes and
\* the rules of the account after it
fixIssues(rules, found, dryRun, refused) ==
  LET toDelete == toDeleteOf(found)
  IN  IF dryRun
      THEN [returned |-> [list |-> toDelete], calls |-> <<>>, rules |-> rules]
      ELSE LET after == deleteEach(rules, toDelete, 1, refused)
           IN  [returned |-> [count |-> after.deleted], calls |-> toDelete,
                rules |-> after.rules]

InitCleanup ==
  /\ pc = "start"
  /\ cleanupArgs \in ArgLists
  /\ providerRules \in RuleSets
  /\ rulesAtStart = providerRules
  /\ issues = <<>>
  /\ deleteCalls = <<>>
  /\ fixReturn = <<>>
  /\ NoInbox
  /\ NoSpam
  /\ NoCore

\* main up to the report
AnalyzeFilters ==
  /\ pc = "start"
  /\ pc' = "analyzed"
  /\ issues' = analyzeFilters(providerRules)
  /\ UNCHANGED <<cleanupArgs, providerRules, rulesAtStart, deleteCalls, fixReturn,
                 inboxVars, spamVars, coreVars>>

\* main from the report on: fixIssues(issues, true) or fixIssues(issues, false)
FixIssues ==
  /\ pc = "analyzed"
  /\ \E refused \in SUBSET (1..Len(toDeleteOf(issues))) :
        LET fixed == fixIssues(providerRules, issues, dryRunOf(cleanupArgs), refused)
        IN  /\ providerRules' = fixed.rules
            /\ deleteCalls' = fixed.calls
            /\ fixReturn' = fixed.returned
  /\ pc' = "done"
  /\ UNCHANGED <<cleanupArgs, rulesAtStart, issues, inboxVars, spamVars, coreVars>>

NextCleanup == AnalyzeFilters \/ FixIssues

SpecCleanup == InitCleanup /\ [][NextCleanup]_vars

(***************************************************************************)
(* SpecSpam: sessions of the paginated spam analyzer.  The messages        *)
(* labelled Likely Spam are the ids 1..spamSize, listed in that order,     *)
(* less the rescued ones; a page token is the id of the last message of    *)
(* the page it follows, null and undefined are 0.  lastRun is the number   *)
(* of the session that wrote the file.                                     *)
(***************************************************************************)
spamBatchSize == 100   \* this.batchSize of PaginatedSpamAnalyzer
MaxSessions == 3       \* sessions of a behaviour

SpamSizes == {0, 60, 100, 101, 250}

\* the messages analyzeBatch finds legitimate
legitimate(id) == id % 60 = 1 /\ id <= 150

NoSpamFile ==
  [exists |-> FALSE, pageToken |-> 0, totalAnalyzed |-> 0, totalRescued |-> 0,
   lastRun |-> 0]

\* loadCheckpoint: the object of the file, or the defaults when it cannot be read
loadSpamCheckpoint(f) ==
  IF f.exists
  THEN [pageToken |-> f.pageToken, totalAnalyzed |-> f.totalAnalyzed,
        totalRescued |-> f.totalRescued, lastRun |-> f.lastRun]
  ELSE [pageToken |-> 0, totalAnalyzed |-> 0, totalRescued |-> 0, lastRun |-> 0]

\* saveCheckpoint(pageToken, totalAnalyzed, totalRescued)
saveSpamCheckpoint(pageToken, totalAnalyzed, totalRescued, time) ==
  [exists |-> TRUE, pageToken |-> pageToken, totalAnalyzed |-> totalAnalyzed,
   totalRescued |-> totalRescued, lastRun |-> time]

\* the token main hands to saveCheckpoint at the end of an iteration
checkpointToken_Current(pageToken, nextPageToken) == pageToken
checkpointToken(pageToken, nextPageToken) == nextPageToken

SpamListing == (1..spamSize) \ spamRescued

\* fetchBatch(pageToken)
fetchBatch(pageToken) == messagesList(SpamListing, spamBatchSize, pageToken)

NoSpamBatch == [messages |-> {}, nextPageToken |-> 0]

InitSpam ==
  /\ pc = "idle"
  /\ spamSize \in SpamSizes
  /\ spamRescued = {}
  /\ spamFile = NoSpamFile
  /\ spamSession = [checkpoint |-> loadSpamCheckpoint(NoSpamFile), pageToken |-> 0,
                    batchNum |-> 0, totalAnalyzed |-> 0, totalRescued |-> 0,
                    stop |-> ""]
  /\ spamBatch = NoSpamBatch
  /\ spamDecided = {}
  /\ spamSessions = 0
  /\ NoInbox
  /\ NoCleanup
  /\ NoCore

\* main up to its loop; a session without a checkpoint starts a new pass
StartSession ==
  /\ pc \in {"idle", "ended"}
  /\ spamSessions < MaxSessions
  /\ LET checkpoint0 == loadSpamCheckpoint(spamFile)
     IN  /\ spamSession' =
               [checkpoint |-> checkpoint0, pageToken |-> checkpoint0.pageToken,
                batchNum |-> (checkpoint0.totalAnalyzed \div spamBatchSize) + 1,
                totalAnalyzed |-> checkpoint0.totalAnalyzed,
                totalRescued |-> checkpoint0.totalRescued, stop |-> ""]
         /\ spamDecided' = IF checkpoint0.lastRun = 0 THEN {} ELSE spamDecided
  /\ spamSessions' = spamSessions + 1
  /\ spamBatch' = NoSpamBatch
  /\ pc' = "loop"
  /\ UNCHANGED <<spamSize, spamRescued, spamFile, inboxVars, cleanupVars, coreVars>>

\* the head of an iteration: fetch, analyse, display, count; the fetch may throw
FetchSpamBatch ==
  /\ pc = "loop"
  /\ \/ LET page == fetchBatch(spamSession.pageToken)
        IN  IF page.messages = {}
            THEN /\ pc' = "finish"
                 /\ spamSession' = [spamSession EXCEPT !.stop = "empty"]
                 /\ spamBatch' = NoSpamBatch
            ELSE /\ pc' = IF \E id \in page.messages : legitimate(id)
                          THEN "action" ELSE "continue"
                 /\ spamSession' =
                      [spamSession EXCEPT
                         !.totalAnalyzed = @ + Cardinality(page.messages)]
                 /\ spamBatch' = page
     \/ /\ pc' = "ended"
        /\ spamSession' = [spamSession EXCEPT !.stop = "error"]
        /\ spamBatch' = NoSpamBatch
  /\ UNCHANGED <<spamSize, spamRescued, spamFile, spamDecided, spamSessions,
                 inboxVars, cleanupVars, coreVars>>

\* rescueEmails(legitimate) and totalRescued += rescued, or the error it throws
Rescue ==
  LET ids == {id \in spamBatch.messages : legitimate(id)}
  IN  \/ /\ spamRescued' = spamRescued \cup ids
         /\ spamSession' = [spamSession EXCEPT !.totalRescued = @ + Cardinality(ids)]
         /\ pc' = "continue"
      \/ /\ pc' = "ended"
         /\ spamSession' = [spamSession EXCEPT !.stop = "error"]
         /\ UNCHANGED spamRescued

\* main after 'What would you like to do?'
ChooseAction ==
  /\ pc = "action"
  /\ \E action \in {"r", "R", "s", "v", "q", "Q"} :
        CASE toLowerCase(action) = "r" -> Rescue
          [] toLowerCase(action) = "v" ->
               /\ pc' = "view"
               /\ UNCHANGED <<spamRescued, spamSession>>
          [] toLowerCase(action) = "q" ->
               /\ pc' = "finish"
               /\ spamSession' = [spamSession EXCEPT !.stop = "quit"]
               /\ UNCHANGED spamRescued
          [] OTHER ->
               /\ pc' = "continue"
               /\ UNCHANGED <<spamRescued, spamSession>>
  /\ UNCHANGED <<spamSize, spamFile, spamBatch, spamDecided, spamSessions,
                 inboxVars, cleanupVars, coreVars>>

\* main after 'Rescue these emails?'
AfterView ==
  /\ pc = "view"
  /\ \E afterView \in Answers :
        IF toLowerCase(afterView) = "y"
        THEN Rescue
        ELSE /\ pc' = "continue"
             /\ UNCHANGED <<spamRescued, spamSession>>
  /\ UNCHANGED <<spamSize, spamFile, spamBatch, spamDecided, spamSessions,
                 inboxVars, cleanupVars, coreVars>>

\* the tail of an iteration: 'Continue to next batch?' when there is one,
\* saveCheckpoint, pageToken = nextPageToken, batchNum++
ContinueOrStop ==
  /\ pc = "continue"
  /\ \E cont \in Answers :
        LET next == spamBatch.nextPageToken
            goesOn == next # 0 /\ toLowerCase(cont) = "y"
        IN  /\ spamFile' =
                 saveSpamCheckpoint(checkpointToken(spamSession.pageToken, next),
                                    spamSession.totalAnalyzed,
                                    spamSession.totalRescued, spamSessions)
            /\ spamSession' =
                 [spamSession EXCEPT
                    !.pageToken = next,
                    !.batchNum = @ + 1,
                    !.stop = IF goesOn THEN ""
                             ELSE IF next # 0 THEN "declined" ELSE "exhausted"]
            /\ pc' = IF goesOn THEN "loop" ELSE "finish"
  /\ spamDecided' = spamDecided \cup spamBatch.messages
  /\ spamBatch' = NoSpamBatch
  /\ UNCHANGED <<spamSize, spamRescued, spamSessions, inboxVars, cleanupVars,
                 coreVars>>

\* main after its loop: the checkpoint file is unlinked when pageToken is not set
FinishSession ==
  /\ pc = "finish"
  /\ pc' = "ended"
  /\ spamFile' = IF spamSession.pageToken = 0 THEN NoSpamFile ELSE spamFile
  /\ spamBatch' = NoSpamBatch
  /\ UNCHANGED <<spamSize, spamRescued, spamSession, spamDecided, spamSessions,
                 inboxVars, cleanupVars, coreVars>>

NextSpam ==
  \/ StartSession
  \/ FetchSpamBatch
  \/ ChooseAction
  \/ AfterView
  \/ ContinueOrStop
  \/ FinishSession

SpecSpam == InitSpam /\ [][NextSpam]_vars

(***************************************************************************)
(* Claims about the classifier (SpecClassify)                              *)
(***************************************************************************)
Analyzed == pc = "analyzed"

HasListHeader == msg.listUnsubscribe # "" \/ msg.listId # ""

HasProviderTag ==
  msg.labelIds \cap {"CATEGORY_PROMOTIONS", "CATEGORY_SOCIAL", "CATEGORY_FORUMS"} # {}

\* the domain of an address is d or a subdomain of d
InDomain(email, d) ==
  extractDomain(email) = d \/ endsWith(extractDomain(email), "." \o d)

InBuiltInProtectedDomain(email) ==
  \E k \in DOMAIN PROTECTED_DOMAINS : InDomain(email, PROTECTED_DOMAINS[k])

\* C1: a message whose sender is not a VIP sender and whose sender domain is
\* a protected domain or a subdomain of one is categorized 'protected',
\* whatever its list headers, provider labels, sender pattern or subject.
C1_ProtectedDomainIsProtected ==
  (/\ Analyzed
   /\ ~arrIncludes(vipEmails, analysis.fromEmail)
   /\ InBuiltInProtectedDomain(analysis.fromEmail))
  => analysis.category = "protected"

\* C2: a message whose sender is not a VIP sender and either exactly matches
\* a configured protected sender or whose subject contains a protected
\* keyword (case-insensitively) is categorized 'protected', whatever list
\* header, provider label, sender pattern or subject pattern it also has.
C2_ProtectedSenderOrKeyword ==
  (/\ Analyzed
   /\ ~arrIncludes(vipEmails, analysis.fromEmail)
   /\ \/ \E k \in DOMAIN protectedSenders : protectedSenders[k] = analysis.fromEmail
      \/ \E k \in DOMAIN protectedKeywords :
            includes(toLowerCase(msg.subject), protectedKeywords[k]))
  => analysis.category = "protected"

\* a protected sender's message that carries a list header, and a message
\* with a protected keyword and a provider tag, were categorized 'protected'
C2_Witness ==
  /\ Analyzed
  /\ analysis.category = "protected"
  /\ HasListHeader
  /\ HasProviderTag
  /\ \/ arrIncludes(protectedSenders, analysis.fromEmail)
     \/ hasProtectedKeyword(protectedKeywords, msg.subject)

\* C3: a message whose normalized sender address exactly matches a VIP
\* sender is categorized 'vip', whatever other rule it matches.
C3_VipFirst ==
  (Analyzed /\ \E k \in DOMAIN vipEmails : vipEmails[k] = analysis.fromEmail)
  => analysis.category = "vip"

\* a VIP sender that is also a protected sender, with a list header
C3_Witness ==
  /\ Analyzed
  /\ analysis.category = "vip"
  /\ arrIncludes(protectedSenders, analysis.fromEmail)
  /\ HasListHeader

(***************************************************************************)
(* Claims about the protection matchers (SpecMatch)                        *)
(***************************************************************************)
\* C8: for a pattern p without '@', an address e matches iff domain(e) = p
\* or domain(e) ends with "." + p, in isProtectedSender as in
\* isFromProtectedDomain.
C8_DomainSuffixMatch ==
  pc = "returned" =>
    LET p == trim(toLowerCase(matchIn.sender))
    IN  /\ ~includes(p, "@") => (matchOut.sender <=> InDomain(matchIn.email, p))
        /\ matchOut.domain <=> InBuiltInProtectedDomain(matchIn.email)

(***************************************************************************)
(* Claims about the rate limiter (SpecRate)                                *)
(***************************************************************************)
\* C10: any two calls of wait() on one shared RateLimiter that are let
\* proceed are separated by at least 1000/requestsPerSecond ms.
C10_ReleasesSpaced ==
  \A i, j \in DOMAIN releases :
     i < j => releases[j] - releases[i] >= minInterval

(***************************************************************************)
(* Claims about a run (Spec)                                               *)
(***************************************************************************)
\* the message is one the configuration protects: VIP sender, configured
\* protected sender, protected domain or protected keyword
IsProtectedMessage(id) ==
  LET m         == PatternMail(scenario, id)
      fromEmail == extractEmail(m.from)
  IN  \/ arrIncludes(vipEmails, fromEmail)
      \/ \E k \in DOMAIN protectedSenders :
            \/ protectedSenders[k] = fromEmail
            \/ ~includes(protectedSenders[k], "@") /\ InDomain(fromEmail, protectedSenders[k])
            \/ /\ startsWith(protectedSenders[k], "@")
               /\ InDomain(fromEmail, SubSeq(protectedSenders[k], 2, Len(protectedSenders[k])))
      \/ InBuiltInProtectedDomain(fromEmail)
      \/ hasProtectedKeyword(protectedKeywords, m.subject)

InGroup(id, group) ==
  \E k \in 1..Len(emailStats[group]) : emailStats[group][k].id = id

\* C4: no message of a VIP sender, of a protected sender or domain, or with a
\* protected keyword in its subject ever has INBOX removed; INBOX is removed
\* only from messages of the newsletters, promotional and automated groups.
C4_ProtectedNeverArchived ==
  \A id \in archived :
     /\ ~IsProtectedMessage(id)
     /\ InGroup(id, "newsletters") \/ InGroup(id, "promotional") \/ InGroup(id, "automated")

\* a rule of the provider names a protected or VIP sender
IsProtectedAddress(from) ==
  \/ arrIncludes(vipEmails, toLowerCase(from))
  \/ \E k \in DOMAIN protectedSenders :
        \/ protectedSenders[k] = toLowerCase(from)
        \/ ~includes(protectedSenders[k], "@") /\ InDomain(from, protectedSenders[k])
        \/ /\ startsWith(protectedSenders[k], "@")
           /\ InDomain(from, SubSeq(protectedSenders[k], 2, Len(protectedSenders[k])))
  \/ InBuiltInProtectedDomain(from)

\* C5: createFilters creates no rule whose from is a VIP sender, a configured
\* protected sender (address or domain pattern) or in a protected domain,
\* whether index.js or continuous.js runs it.
C5_NoRuleForProtected ==
  \A k \in DOMAIN createdRules : ~IsProtectedAddress(createdRules[k].from)

\* C6: createFilters creates no rule whose from equals, case-insensitively,
\* the from of a rule the provider had when the run fetched its rule list.
C6_NoDuplicateOfExisting ==
  \A j \in DOMAIN createdRules :
     \A k \in DOMAIN existingFilters.list :
        toLowerCase(createdRules[j].from) # toLowerCase(existingFilters.list[k].from)

\* C7: after createFilters has run twice on the same aggregates, no two rules
\* of the provider have the same from.
C7_Idempotent ==
  (Len(synthRuns) = 2 /\ synthRuns[1] = synthRuns[2]) =>
     \A j, k \in DOMAIN filters : j # k => filters[j].from # filters[k].from

\* the sum of the sizes of the groups of emailStats
RECURSIVE SumSizes(_)
SumSizes(groups) ==
  IF groups = {} THEN 0
  ELSE LET g == CHOOSE x \in groups : TRUE
       IN  Len(emailStats[g]) + SumSizes(groups \ {g})

\* the messages of the batches analysed so far whose metadata was fetched
FetchedSoFar ==
  {messages[k] : k \in {j \in 1..MinOf(batchStart, Len(messages)) :
                          ~Fails("getMessage", messages[j], "")}}

\* C9: after any number of analyzeAllEmails batches, every message whose
\* metadata was fetched is in exactly one category group, and
\* emailStats.total is the sum of the sizes of the groups.
C9_OneGroupPerMessage ==
  /\ emailStats.total = SumSizes(Groups)
  /\ \A id \in FetchedSoFar :
        Cardinality({<<g, k>> \in Groups \X (1..Len(messages)) :
                       k <= Len(emailStats[g]) /\ emailStats[g][k].id = id}) = 1

\* two batches were analysed, one message of them could not be fetched
C9_Witness ==
  /\ pc = "confirm"
  /\ batchStart > batchSize
  /\ emailStats.total > batchSize
  /\ emailStats.total < Len(messages)

Count(seq, x) == Cardinality({j \in DOMAIN seq : seq[j] = x})

\* C16: a run calls updateCheckpoint at most once, and only after it has
\* attempted applyFiltersToExisting and createFilters; a run that found no
\* messages does not call it, and while a run has not called it the
\* checkpoint file is as it was when the run started.
C16_CheckpointOnlyAtEnd ==
  /\ Count(steps, "updateCheckpoint") <= 1
  /\ \A j \in DOMAIN steps :
        steps[j] = "updateCheckpoint" =>
           /\ \E a \in 1..(j - 1) : steps[a] = "applyFiltersToExisting"
           /\ \E b \in 1..(j - 1) : steps[b] = "createFilters"
  /\ Len(messages) = 0 => Count(steps, "updateCheckpoint") = 0
  /\ Count(steps, "updateCheckpoint") = 0 => checkpoint = checkpointAtStart

\* a second run of continuous.js has updated the checkpoint of the first
C16_Witness ==
  /\ entry = "continuous" /\ run = 2 /\ pc = "done"
  /\ Count(steps, "updateCheckpoint") = 1
  /\ checkpointAtStart # NoCheckpoint
  /\ checkpoint # checkpointAtStart

\* the run has made a provider call that failed with code 401 or 404
FatalFailure ==
  \E call \in failing :
     /\ call.run = run
     /\ errorCode(call) \in {401, 404}
     /\ \/ /\ call.op = "getMessage"
           /\ \E j \in 1..MinOf(batchStart, Len(messages)) : messages[j] = call.id
        \/ /\ call.op = "addLabel"
           /\ Count(steps, "applyFiltersToExisting") = 1
           /\ \E k \in DOMAIN actions :
                 /\ actions[k].label = call.name
                 /\ call.name \in createdLabels
                 /\ Len(emailStats[actions[k].group]) > 0
        \/ /\ call.op = "createFilter"
           /\ Count(steps, "createFilters") = 1
           /\ existingFilters.fetched
           /\ \E k \in DOMAIN candidates :
                 /\ candidates[k].sender = call.name
                 /\ ~filterExists(existingFilters.list, call.name)
                 /\ ~filterIsProtectedSender(call.name)

\* C17: once a metadata fetch, a chunk mutation or a rule creation of the run
\* has failed with code 401 or 404, the run is aborted and has not updated
\* the checkpoint.
C17_FatalFailureAborts ==
  FatalFailure =>
     /\ pc = "aborted"
     /\ Count(steps, "updateCheckpoint") = 0

(***************************************************************************)
(* Claims about withRetry (SpecRetry)                                      *)
(***************************************************************************)
Settled == pc = "settled" /\ retryResult.kind # "pending"

isRetryable(o) == o.kind = "thrown" /\ ~isFatal(o.error)

\* fn fails k times with retryable errors and then succeeds
FailsThenSucceeds(k) ==
  /\ \A j \in 1..k : isRetryable(fnScript[j])
  /\ fnScript[k + 1].kind = "returned"

\* C11: when fn fails k <= maxRetries times with retryable errors and then
\* succeeds, withRetry returns that value and fn was called exactly k + 1 times.
C11_SuccessAfterRetries ==
  \A k \in 0..maxRetries :
     (Settled /\ FailsThenSucceeds(k)) =>
        /\ retryResult = Returned(fnScript[k + 1].value)
        /\ Len(fnCalls) = k + 1

\* maxRetries = 3, two failures, then success: three calls
C11_Witness ==
  /\ Settled /\ maxRetries = defaultMaxRetries /\ FailsThenSucceeds(2)
  /\ Len(fnCalls) = 3 /\ retryResult.kind = "returned"

\* C12: a 401 or 404 error of fn is rethrown at once: it is the last call of
\* fn, withRetry has thrown it, and no sleep follows it.
C12_FatalNotRetried ==
  \A j \in DOMAIN fnCalls :
     (fnCalls[j].kind = "thrown" /\ fnCalls[j].error.code \in {401, 404}) =>
        /\ j = Len(fnCalls)
        /\ pc = "settled"
        /\ retryResult = Thrown(fnCalls[j].error)
        /\ Len(sleeps) <= j - 1

\* a 404 on the second attempt
C12_Witness ==
  /\ Settled /\ Len(fnCalls) = 2 /\ isRetryable(fnCalls[1])
  /\ fnCalls[2].kind = "thrown" /\ fnCalls[2].error.code = 404
  /\ retryResult.kind = "thrown"

\* C13: fn is never called more than maxRetries + 1 times, and when every
\* call fails with a retryable error, fn is called exactly maxRetries + 1
\* times and withRetry throws the last error.
C13_ExhaustionPropagates ==
  /\ Len(fnCalls) <= maxRetries + 1
  /\ (Settled /\ \A j \in DOMAIN fnCalls : isRetryable(fnCalls[j])) =>
        /\ Len(fnCalls) = maxRetries + 1
        /\ retryResult = Thrown(fnCalls[Len(fnCalls)].error)

\* four failures, the last one different from the first
C13_Witness ==
  /\ Settled /\ maxRetries = defaultMaxRetries /\ Len(fnCalls) = maxRetries + 1
  /\ \A j \in DOMAIN fnCalls : isRetryable(fnCalls[j])
  /\ fnCalls[1].error # fnCalls[4].error
  /\ retryResult.kind = "thrown"

(***************************************************************************)
(* Claims about applyFiltersToExisting (SpecApply)                         *)
(***************************************************************************)
Applied == pc = "applied"

\* the batches of the calls of one kind for entry k, in call order
batchesOf(k, op) ==
  LET live == SelectSeq(batchCalls, LAMBDA c : c.action = k /\ c.op = op)
  IN  [j \in 1..Len(live) |-> live[j].ids]

RECURSIVE Concat(_)
Concat(seqs) == IF seqs = <<>> THEN <<>> ELSE Head(seqs) \o Concat(Tail(seqs))

\* batches are the consecutive chunks of ids: ceil(n / 50) of them, each of
\* 50 ids but the last, and together they are ids
IsChunking(batches, ids) ==
  /\ Len(batches) = (Len(ids) + 49) \div 50
  /\ \A j \in 1..Len(batches) :
        Len(batches[j]) = IF j < Len(batches) THEN 50 ELSE Len(ids) - 50 * (j - 1)
  /\ Concat(batches) = ids

\* C14: when applyFiltersToExisting has returned, the applyLabel calls of
\* every entry it processed, and the archiveMessages calls of every archive
\* entry, are the consecutive chunks of 50 of the entry's ids, in list order.
C14_ChunksOfFifty ==
  Applied =>
    \A k \in DOMAIN actions :
       applies(k) =>
          /\ IsChunking(batchesOf(k, "addLabel"), messageIds(k))
          /\ actions[k].archive =>
                IsChunking(batchesOf(k, "removeInbox"), messageIds(k))

\* 123 newsletters: calls of 50, 50 and 23 ids
C14_Witness ==
  /\ Applied
  /\ groupSizes[1] = 123
  /\ LET b == batchesOf(1, "addLabel")
     IN  Len(b) = 3 /\ Len(b[1]) = 50 /\ Len(b[2]) = 50 /\ Len(b[3]) = 23

\* the calls applyFiltersToExisting makes when no call fails
RECURSIVE plannedFrom(_)
plannedFrom(p) ==
  IF p = End THEN <<>>
  ELSE <<[action |-> p.action, op |-> p.op, i |-> p.i]>> \o plannedFrom(advance(p))

\* C15: whichever calls fail, applyFiltersToExisting returns having attempted
\* every call it attempts when none fails; before that another call is enabled.
C15_FailureDoesNotAbort ==
  /\ Applied => Len(batchCalls) = Len(plannedFrom(firstCall(1)))
  /\ Applied =>
       \A j \in DOMAIN batchCalls :
          LET p == plannedFrom(firstCall(1))[j]
          IN  /\ batchCalls[j].action = p.action
              /\ batchCalls[j].op = p.op
              /\ batchCalls[j].ids = slice(messageIds(p.action), p.i)
  /\ pc = "applying" => (ENABLED BatchModify \/ ENABLED ApplyReturns)

\* the first chunk of the newsletters failed; two more chunks, the archive
\* calls and two more entries were still attempted
C15_Witness ==
  /\ Applied
  /\ groupSizes[1] = 123 /\ groupSizes[2] = 100 /\ groupSizes[4] = 2
  /\ labelNames = LabelNames
  /\ ~batchCalls[1].ok
  /\ Len(batchCalls) = 11

(***************************************************************************)
(* Claims about resuming from the checkpoint (SpecResume)                  *)
(***************************************************************************)
\* C18: a stored lastProcessedDate never passes a message that arrived on or
\* after the first stored date and that no run has fetched and analysed.
C18_NoMessageSkipped ==
  \A id \in DOMAIN inbox :
     (firstStored # 0 /\ inbox[id] >= firstStored
        /\ inbox[id] < checkpoint.lastProcessedDate) => id \in classified

(***************************************************************************)
(* Claims about the checkpoint file (SpecStore)                            *)
(***************************************************************************)
JustLoaded == Len(lastOps) > 0 /\ lastOps[Len(lastOps)] = "load"

\* C19: loadCheckpoint never throws, and when the file is absent, unreadable
\* or not JSON it returns lastProcessedDate null, totalProcessed 0, lastRun
\* null.
C19_LoadDefaults ==
  /\ loaded.kind = "returned"
  /\ (JustLoaded /\ file.kind # "json") =>
        loaded.value = [lastProcessedDate |-> 0, totalProcessed |-> 0, lastRun |-> 0]

\* the file was never written and a load returned the defaults
C19_Witness ==
  /\ JustLoaded /\ file \in {Absent, Unreadable} /\ updateCall = NoCall
  /\ loaded = Resolved(NoCheckpoint)

\* C20: the value updateCheckpoint returns has the argument's fields from the
\* argument, the other stored fields as stored, and lastRun set to the time
\* of the call; update(load()) leaves lastProcessedDate and totalProcessed as
\* stored; a load right after an update returns what the update returned.
C20_UpdateMerges ==
  updateCall.result.kind = "returned" =>
    LET u == updateCall
        v == u.result.value
    IN  /\ DOMAIN v = DOMAIN u.current \cup DOMAIN u.arg \cup {"lastRun"}
        /\ v["lastRun"] = u.at
        /\ \A k \in DOMAIN v \ {"lastRun"} :
              v[k] = IF k \in DOMAIN u.arg THEN u.arg[k] ELSE u.current[k]
        /\ u.arg = u.current =>
              /\ v["lastProcessedDate"] = u.current["lastProcessedDate"]
              /\ v["totalProcessed"] = u.current["totalProcessed"]
        /\ lastOps = <<"update", "load">> => loaded = Resolved(v)

\* an update with one field, on a stored checkpoint, at a later time, and
\* then a load
C20_Witness ==
  /\ lastOps = <<"update", "load">>
  /\ updateCall.result.kind = "returned"
  /\ updateCall.arg = [totalProcessed |-> 7]
  /\ updateCall.current["lastProcessedDate"] = 2
  /\ updateCall.at > updateCall.current["lastRun"]
  /\ loaded.value["lastProcessedDate"] = 2 /\ loaded.value["totalProcessed"] = 7

(***************************************************************************)
(* The confirmation gate, the rule thresholds and the end-to-end run       *)
(***************************************************************************)
\* the user answered 'y' (in either case: steps holds the lower-cased answer)
\* to the prompt of this run
AnsweredYes == \E j \in DOMAIN steps : steps[j] = "answered y"

\* a step that creates a label, changes the labels of a message, creates a
\* rule or writes the checkpoint
Mutates ==
  \/ createdLabels' \ createdLabels # {}
  \/ msgLabels' # msgLabels
  \/ filters' # filters
  \/ checkpoint' # checkpoint

\* C21: no label is created, no message relabelled, no rule created and no
\* checkpoint written in a run before the user answered 'y' to the prompt;
\* after any other answer the run ends with all of them as they were.
C21_ConfirmationGate == [][Mutates => AnsweredYes]_vars

\* a run that would have archived and created a rule ended on the answer 'yes'
C21_Witness ==
  /\ pc = "done"
  /\ steps = <<"answered yes">>
  /\ Len(emailStats.newsletters) > minCategorySize
  /\ \A id \in DOMAIN msgLabels : "INBOX" \in msgLabels[id]
  /\ filters = <<>>
  /\ checkpoint = checkpointAtStart

\* the number of messages of a group that come from a sender
MessagesFrom(group, sender) ==
  Cardinality({k \in 1..Len(emailStats[group]) : emailStats[group][k].fromEmail = sender})

\* the groups createFilters reads, with the label of their rules
RuleGroups ==
  { <<"newsletters", "Filtered/Newsletters">>,
    <<"promotional", "Filtered/Promotional">>,
    <<"automated", "Filtered/Automated">> }

\* C22: every rule a run created is for a sender that has at least 3 messages
\* in a category group of more than 5 messages of that run.
C22_RuleThresholds ==
  \A j \in DOMAIN createdRules :
     \E g \in RuleGroups :
        /\ g[2] = createdRules[j].addLabel
        /\ Len(emailStats[g[1]]) > 5
        /\ MessagesFrom(g[1], createdRules[j].from) >= 3

\* a group of 12 gave a rule to the sender of 11 of them and none to the
\* sender of the twelfth
C22_Witness ==
  /\ pc = "done"
  /\ Len(emailStats.newsletters) > 5
  /\ MessagesFrom("newsletters", "rare@y.com") \in 1..2
  /\ MessagesFrom("newsletters", "newsletter@x.com") >= 3
  /\ \E j \in DOMAIN createdRules : createdRules[j].from = "newsletter@x.com"
  /\ \A j \in DOMAIN createdRules : createdRules[j].from # "rare@y.com"

\* the rules the account had when createFilters of this run started
RulesBefore == SubSeq(filters, 1, Len(filters) - Len(createdRules))

\* a finished run, without provider failure and without protection
\* configuration, on the mailbox of 10 messages of newsletter@x.com that
\* carry a List-Unsubscribe header
TenNewsletters ==
  /\ scenario = 1
  /\ Len(msgLabels) = 10
  /\ vipEmails = <<>> /\ protectedSenders = <<>> /\ protectedKeywords = <<>>
  /\ failing = {}
  /\ pc = "done"
  /\ \E j \in DOMAIN steps : steps[j] = "createFilters"

\* C23: on 10 messages of newsletter@x.com with a list header and no
\* protection rule, all 10 are classified newsletter, all 10 get the label
\* Filtered/Newsletters and lose INBOX, and the run creates exactly one rule,
\* for newsletter@x.com, when the account had no rule with that from, and no
\* rule when it had one.
C23_EndToEnd ==
  TenNewsletters =>
    /\ emailStats.total = 10
    /\ Len(emailStats.newsletters) = 10
    /\ \A k \in 1..10 : emailStats.newsletters[k].category = "newsletter"
    /\ \A id \in 1..10 :
          /\ "Filtered/Newsletters" \in msgLabels[id]
          /\ "INBOX" \notin msgLabels[id]
    /\ createdRules =
          IF \E k \in DOMAIN RulesBefore : RulesBefore[k].from = "newsletter@x.com"
          THEN <<>>
          ELSE << [from |-> "newsletter@x.com", addLabel |-> "Filtered/Newsletters",
                   removeInbox |-> TRUE] >>

\* the run on the account without rules created the one rule
C23_Witness ==
  /\ TenNewsletters
  /\ RulesBefore = <<>>
  /\ Len(createdRules) = 1
  /\ archived = 1..10

(***************************************************************************)
(* Claims about the label helpers (SpecLabel)                              *)
(***************************************************************************)
LabelsNamed(name) == {k \in DOMAIN providerLabels : providerLabels[k].name = name}

\* C24: after any number of calls of createLabel and ensureLabel, the account
\* has exactly one label of each name a call was made for, and every call for
\* that name returned the id of that label.
C24_EnsureIdempotent ==
  \A j \in DOMAIN labelCalls :
     /\ Cardinality(LabelsNamed(labelCalls[j].name)) = 1
     /\ ~labelCalls[j].threw
     /\ \A k \in LabelsNamed(labelCalls[j].name) :
           labelCalls[j].id = providerLabels[k].id

\* three calls for one name, by the three helpers, on an account without
\* that label
C24_Witness ==
  /\ Len(labelCalls) = 3
  /\ \A j \in 1..3 : labelCalls[j].name = "Receipts"
  /\ {labelCalls[j].fn : j \in 1..3} =
       {"EmailFilter.createLabel", "FilterImprover.ensureLabel",
        "ImprovedFilterManager.ensureLabel"}
  /\ Cardinality(LabelsNamed("Receipts")) = 1
  /\ Cardinality(LabelsNamed("VIP")) = 1

(***************************************************************************)
(* Claims about createFilters and the report of a run (Spec)               *)
(***************************************************************************)
\* createFilters of this run returned
Synthesized ==
  /\ pc \in {"checkpoint", "done"}
  /\ \E j \in DOMAIN steps : steps[j] = "createFilters"

\* createFilters attempts the candidate: no rule for it in the fetched list,
\* not protected
Attempted(c) ==
  /\ ~filterExists(existingFilters.list, c.sender)
  /\ ~filterIsProtectedSender(c.sender)

\* the creation of the rule of the candidate throws
CreationFails(c) ==
  c.label \notin createdLabels \/ Fails("createFilter", 0, c.sender)

\* C25: when createFilters has returned, every attempted candidate whose
\* creation did not fail has its rule, whatever failed before it, and the
\* count returned is the number of rules created.
C25_CreationFailureIsolated ==
  Synthesized =>
    /\ createdCount = Len(createdRules)
    /\ \A k \in DOMAIN candidates :
          Attempted(candidates[k]) /\ ~CreationFails(candidates[k]) =>
             \E j \in DOMAIN createdRules :
                /\ createdRules[j].from = candidates[k].sender
                /\ createdRules[j].addLabel = candidates[k].label

\* the first candidate failed and two later ones, of the same and of the
\* next category, were created
C25_Witness ==
  /\ Synthesized
  /\ Len(candidates) >= 3
  /\ Attempted(candidates[1]) /\ CreationFails(candidates[1])
  /\ createdCount = 2
  /\ {createdRules[j].addLabel : j \in DOMAIN createdRules} =
       {"Filtered/Newsletters", "Filtered/Promotional"}

(***************************************************************************)
(* Claim about the pacing of the chunk calls (SpecApply)                   *)
(***************************************************************************)
\* C26: every batchModify call of applyLabel and archiveMessages is made
\* after RateLimiter.wait() and through withRetry, in that order.
C26_ChunkCallsPacedAndRetried ==
  \A j \in DOMAIN batchCalls :
     batchCalls[j].through = <<"rateLimiter.wait", "withRetry">>

(***************************************************************************)
(* Claims about messages without metadata and about the counter (Spec)     *)
(***************************************************************************)
\* the messages of the batches analysed so far whose metadata fetch failed
Dropped ==
  {messages[k] : k \in {j \in 1..MinOf(batchStart, Len(messages)) :
                          Fails("getMessage", messages[j], "")}}

\* C27: a message whose metadata could not be fetched is in no group (not
\* in unknown either), is not counted in emailStats.total, keeps INBOX and
\* gets no label in the run, while every other message of the batches
\* analysed is in a group and counted.
C27_UnfetchedDropped ==
  /\ \A id \in Dropped :
        /\ \A g \in Groups : ~InGroup(id, g)
        /\ id \notin archived
        /\ run = 1 => msgLabels[id] = PatternMail(scenario, id).labelIds
  /\ emailStats.total = Cardinality(FetchedSoFar)
  /\ \A id \in FetchedSoFar : \E g \in Groups : InGroup(id, g)

\* a finished run that lost one message of a batch and archived the others
C27_Witness ==
  /\ Synthesized
  /\ Dropped = {1}
  /\ emailStats.total = Len(messages) - 1
  /\ archived = {messages[k] : k \in 2..Len(messages)}
  /\ Len(messages) = batchSize

\* C28: the stored totalProcessed never decreases: a run that has written
\* the checkpoint added to the value it found the number of messages it
\* fetched (messages.length, which the program reports as processed), and a
\* run that has not (declined, aborted, nothing to fetch, or not yet at its
\* end) left the value it found.
C28_TotalProcessedMonotonic ==
  /\ checkpoint.totalProcessed >= checkpointAtStart.totalProcessed
  /\ checkpoint.totalProcessed =
       IF Count(steps, "updateCheckpoint") > 0
       THEN checkpointAtStart.totalProcessed + Len(messages)
       ELSE checkpointAtStart.totalProcessed

\* a second completed run added its messages to the count of the first
C28_Witness ==
  /\ run = 2
  /\ Count(steps, "updateCheckpoint") = 1
  /\ checkpointAtStart.totalProcessed > 0
  /\ Len(messages) > 0
  /\ checkpoint.totalProcessed = checkpointAtStart.totalProcessed + Len(messages)

\* C29: the count of archived messages the end-of-run report gives as done
\* is the number of messages the run removed INBOX from: the messages of a
\* chunk whose call failed are not in it.
C29_ReportCountsConfirmed ==
  Synthesized /\ createdLabels = LabelNames =>
     summary.archived = Cardinality(archived)

(***************************************************************************)
(* Claim about the order of the classifier rules (SpecClassify)            *)
(***************************************************************************)
\* the message matches a VIP or protection rule: VIP sender, protected
\* sender (address or domain pattern), built-in protected domain, keyword
MatchesProtection ==
  \/ arrIncludes(vipEmails, analysis.fromEmail)
  \/ \E k \in DOMAIN protectedSenders :
        \/ protectedSenders[k] = analysis.fromEmail
        \/ /\ ~includes(protectedSenders[k], "@")
           /\ InDomain(analysis.fromEmail, protectedSenders[k])
        \/ /\ startsWith(protectedSenders[k], "@")
           /\ InDomain(analysis.fromEmail,
                       SubSeq(protectedSenders[k], 2, Len(protectedSenders[k])))
  \/ InBuiltInProtectedDomain(analysis.fromEmail)
  \/ hasProtectedKeyword(protectedKeywords, msg.subject)

AutomatedSender == anyPattern(automatedPatterns, analysis.fromEmail)
NewsletterSubject == anyPattern(newsletterSubjectPatterns, msg.subject)
ReceiptPattern ==
  \/ anyPattern(receiptPatterns, msg.subject)
  \/ matchesThen(toLowerCase(msg.subject), "order", "shipped")
  \/ matchesThen(toLowerCase(msg.subject), "order", "delivered")
  \/ \E d \in {"paypal.com", "invoice", "amazon.com"} : includes(analysis.fromEmail, d)
ConfirmationPattern == anyPattern(confirmationPatterns, msg.subject)

\* the rules in the stated order, with the category each gives
RuleOrder ==
  << <<HasListHeader, "newsletter">>,
     <<"CATEGORY_PROMOTIONS" \in msg.labelIds, "promotional">>,
     <<"CATEGORY_SOCIAL" \in msg.labelIds, "social">>,
     <<"CATEGORY_FORUMS" \in msg.labelIds, "forums">>,
     <<AutomatedSender, "automated">>,
     <<NewsletterSubject, "newsletter">>,
     <<ReceiptPattern, "receipt">>,
     <<ConfirmationPattern, "confirmation">>,
     <<TRUE, "unknown">> >>

\* C30: a message that matches no VIP or protection rule gets the category
\* of the first rule it matches in the order list header, provider tag
\* (promotions, social, forums), automated sender, newsletter subject,
\* receipt, confirmation, and unknown when it matches none: one value of the
\* closed set, the same for the same message.
C30_FirstMatchWins ==
  Analyzed /\ ~MatchesProtection =>
     LET order == RuleOrder
     IN  \E k \in DOMAIN order :
            /\ order[k][1]
            /\ \A j \in 1..(k - 1) : ~order[j][1]
            /\ analysis.category = order[k][2]

\* a message with a list header and the promotions tag was categorized
\* newsletter
C30_Witness ==
  /\ Analyzed
  /\ ~MatchesProtection
  /\ HasListHeader
  /\ "CATEGORY_PROMOTIONS" \in msg.labelIds
  /\ analysis.category = "newsletter"

\* an automated sender with a receipt subject was categorized automated
C30_AutomatedBeforeReceipt ==
  /\ Analyzed
  /\ ~MatchesProtection
  /\ ~HasListHeader /\ ~HasProviderTag
  /\ AutomatedSender /\ ReceiptPattern
  /\ analysis.category = "automated"

(***************************************************************************)
(* Claim about the backoff schedule (SpecRetry)                            *)
(***************************************************************************)
\* the failure is a rate-limit failure: code 429 or 'Rate Limit' in the message
IsRateLimitFailure(o) ==
  o.error.code = 429 \/ includes(o.error.message, "Rate Limit")

\* C31: between invocation j and invocation j + 1 of fn (attempt j - 1 failed)
\* withRetry waited once: 1000 * 2^(attempt + 2) ms after a rate-limit
\* failure, 1000 * 2^attempt ms after any other failure.
C31_BackoffSchedule ==
  \A j \in 1..(Len(fnCalls) - 1) :
     /\ j \in DOMAIN sleeps
     /\ sleeps[j] = IF IsRateLimitFailure(fnCalls[j])
                    THEN 1000 * Pow2((j - 1) + 2)
                    ELSE 1000 * Pow2(j - 1)

\* four invocations, after a rate-limit failure, a server error and
\* another rate-limit failure
C31_Witness ==
  /\ pc = "settled"
  /\ Len(fnCalls) = 4
  /\ sleeps = <<4000, 2000, 16000>>
  /\ retryResult.kind = "returned"

(***************************************************************************)
(* Claim about the patterns that contain '@' (SpecMatch)                   *)
(***************************************************************************)
\* C32: a pattern that starts with '@' matches an address iff the domain of
\* the address is the rest of the pattern or ends with '.' + the rest; any
\* other pattern with '@' (a full address) matches iff the two domains are
\* equal or the normalized addresses are equal, so not for a subdomain.
C32_AtPatternMatch ==
  pc = "returned" =>
    LET p == trim(toLowerCase(matchIn.sender))
        e == toLowerCase(matchIn.email)
    IN  includes(p, "@") =>
          (matchOut.sender <=>
             IF startsWith(p, "@")
             THEN InDomain(e, SubSeq(p, 2, Len(p)))
             ELSE extractDomain(e) = extractDomain(p) \/ e = p)

\* a full-address pattern did not match an address of a subdomain of its
\* domain
C32_Witness ==
  /\ pc = "returned"
  /\ matchIn = [email |-> "b@hr.corp.com", sender |-> "other@corp.com"]
  /\ ~matchOut.sender

(***************************************************************************)
(* Claims about the rule list and the receipt step                         *)
(***************************************************************************)
\* C33: a run fetches the rule list of the provider at most once, whatever
\* the number of senders it checks and also when the list is empty, and the
\* list its duplicate checks read is the one the account had at that fetch.
C33_RuleListFetchedOnce ==
  /\ Count(steps, "listFilters") <= 1
  /\ Synthesized /\ Len(candidates) > 0 =>
        /\ Count(steps, "listFilters") = 1
        /\ existingFilters = [fetched |-> TRUE, list |-> RulesBefore]

\* several senders were checked against the empty rule list of the account
C33_Witness ==
  /\ Synthesized
  /\ Len(candidates) >= 2
  /\ RulesBefore = <<>>
  /\ Len(createdRules) >= 2
  /\ Count(steps, "listFilters") = 1

\* the domains whose mail is transactional
TransactionalDomains == {"paypal.com", "amazon.com"}

ReceiptSubject ==
  \/ anyPattern(receiptPatterns, msg.subject)
  \/ matchesThen(toLowerCase(msg.subject), "order", "shipped")
  \/ matchesThen(toLowerCase(msg.subject), "order", "delivered")

\* C34: a message categorized receipt whose subject matches no receipt
\* pattern comes from a transactional domain (or a subdomain of one); an
\* address that only contains such a name elsewhere is not enough.
C34_ReceiptBySenderDomain ==
  Analyzed /\ analysis.category = "receipt" /\ ~ReceiptSubject =>
     \E d \in TransactionalDomains : InDomain(analysis.fromEmail, d)

(***************************************************************************)
(* Claims about the mutations of a run (Spec)                              *)
(***************************************************************************)
\* C35: every message the run removed INBOX from carries the label of its
\* archived category: a message whose label chunk failed is not archived
\* unlabelled.
C35_ArchivedOnlyIfLabelled ==
  \A id \in archived :
     \E i \in DOMAIN actions :
        /\ actions[i].archive
        /\ InGroup(id, actions[i].group)
        /\ actions[i].label \in msgLabels[id]

\* C36: the rules one createFilters run created have distinct senders, also
\* for a sender that is frequent in more than one group.
C36_OneRulePerSender ==
  \A j, k \in DOMAIN createdRules :
     j # k => createdRules[j].from # createdRules[k].from

\* applyFiltersToExisting of this run has returned
AppliedFilters == \E j \in DOMAIN steps : steps[j] = "applyFiltersToExisting"

\* C37: when applyFiltersToExisting has returned, the messages of a category
\* whose label is missing from the labels map have not been touched (INBOX
\* not removed by the run; in a first run their labels are those they
\* arrived with), and the messages of the other
\* categories have their label, and have lost INBOX if the category is an
\* archived one, unless their own chunk call failed.
C37_MissingLabelSkipsCategory ==
  AppliedFilters =>
    \A i \in DOMAIN actions :
       \A k \in 1..Len(emailStats[actions[i].group]) :
          LET id == emailStats[actions[i].group][k].id
          IN  IF actions[i].label \notin createdLabels
              THEN /\ id \notin archived
                   /\ run = 1 => msgLabels[id] = PatternMail(scenario, id).labelIds
              ELSE /\ ~Fails("addLabel", 1, actions[i].label) =>
                         actions[i].label \in msgLabels[id]
                   /\ actions[i].archive /\ ~Fails("removeInbox", 1, actions[i].label) =>
                         id \in archived /\ "INBOX" \notin msgLabels[id]

\* the newsletters were left alone for want of their label, the
\* promotional messages were labelled and archived
C37_Witness ==
  /\ AppliedFilters
  /\ "Filtered/Newsletters" \notin createdLabels
  /\ Len(emailStats.newsletters) > 0
  /\ Len(emailStats.promotional) > 0
  /\ archived = {emailStats.promotional[k].id : k \in 1..Len(emailStats.promotional)}
  /\ \A k \in 1..Len(emailStats.newsletters) :
        "INBOX" \in msgLabels[emailStats.newsletters[k].id]

(***************************************************************************)
(* Claims about the inbox batch processor (SpecInbox)                      *)
(***************************************************************************)
\* C38: every batch after the first fetches with the nextPageToken that the
\* preceding batch returned, and fetches no message the preceding batch
\* fetched.
C38_BatchesFollowPages ==
  \A j \in 2..Len(batchFetches) :
     /\ batchFetches[j].pageToken = batchFetches[j - 1].nextPageToken
     /\ batchFetches[j].messages \cap batchFetches[j - 1].messages = {}

(***************************************************************************)
(* Claims about the filter cleanup tool (SpecCleanup)                      *)
(***************************************************************************)
\* C39: a run without --apply returns the list of the filters that would be
\* deleted, makes no filters.delete call and leaves the rules of the account
\* as they were.
C39_DryRunReadOnly ==
  (pc = "done" /\ ~arrIncludes(cleanupArgs, "--apply"))
    => /\ fixReturn = [list |-> toDeleteOf(analyzeFilters(rulesAtStart))]
       /\ deleteCalls = <<>>
       /\ providerRules = rulesAtStart

C39_Witness ==
  /\ pc = "done"
  /\ ~arrIncludes(cleanupArgs, "--apply")
  /\ Len(toDeleteOf(issues)) >= 2
  /\ deleteCalls = <<>>
  /\ providerRules = rulesAtStart

(***************************************************************************)
(* Claims about the paginated spam analyzer (SpecSpam)                     *)
(***************************************************************************)
\* what the next session loads
ResumePoint == loadSpamCheckpoint(spamFile)

\* the messages of the pass that no finished batch held
Undecided == SpamListing \ spamDecided

ResumesAtFirstUndecided ==
  /\ {id \in SpamListing : id > ResumePoint.pageToken} = Undecided
  /\ ResumePoint.totalAnalyzed = Cardinality(spamDecided)
  /\ ResumePoint.totalRescued = Cardinality(spamDecided \cap spamRescued)

\* C40: when a session ends because the user declined to continue or quit,
\* the next session starts at the first message of the first batch the user
\* has not decided on, with totalAnalyzed and totalRescued counting exactly
\* the batches before it; and the checkpoint file is removed only when every
\* message of the listing was in a decided batch.
C40_ResumeAtFirstUndecided ==
  [][/\ (pc' = "ended" /\ spamSession'.stop \in {"declined", "quit"})
          => ResumesAtFirstUndecided'
     /\ (spamFile.exists /\ ~spamFile'.exists) => Undecided' = {}]_vars

C40_Witness ==
  /\ pc = "ended"
  /\ spamSession.stop = "quit"
  /\ spamSession.checkpoint.lastRun # 0
  /\ spamFile.exists
  /\ spamDecided # {}
  /\ spamRescued # {}
  /\ Undecided # {}

====
